----------------------------- MODULE ChainSync -----------------------------
(***************************************************************************)
(* The ledger of one node and the threads that move it: the main loop      *)
(* (engine::daemon::run, stages 1-4 of a one-minute cycle), the syncd      *)
(* thread (engine::syncd_t::run) that walks block files backwards from the *)
(* voted head and patches the database, and the network workers that write *)
(* block files (engine::daemon::process_block).                            *)
(*                                                                         *)
(* The databases of the apps are abstracted to db, the sequence of blocks  *)
(* imported since they were last cleared; the hash of a block is the block *)
(* and Prev is the prev field its hash covers.  One action is one critical *)
(* section of a thread together with the thread-local code after it.       *)
(*                                                                         *)
(* Local deltas and votes (what stages 1-4 send) are in LocalDeltas and    *)
(* Votes; here stage 2 receives any voted tip, zero only when the node did *)
(* not vote itself.  on_sync is in Evidences.                              *)
(***************************************************************************)
EXTENDS Naturals, Integers, Sequences

CONSTANTS
    Blocks,        \* the hashes of blocks that may come to exist
    Zero,          \* the zero hash
    Prev,          \* diff::prev of every block
    NodeAt,        \* blocks after which the auth app lists this node in db.nodes
    Reps,          \* reset_countdown (100 in the code): queries before a db reset
    MaxCrashes,    \* bound: how many crashes a behaviour has
    Timely         \* TRUE: disk work is fast next to the clock (see StageStarts)

ASSUME ZeroAssumption == Zero \notin Blocks
ASSUME PrevAssumption == Prev \in [Blocks -> Blocks \cup {Zero}]
ASSUME NodeAtAssumption == NodeAt \subseteq Blocks
ASSUME RepsAssumption == Reps \in Nat \ {0}
ASSUME MaxCrashesAssumption == MaxCrashes \in Nat
ASSUME TimelyAssumption == Timely \in BOOLEAN

\* diff::hash: a block is known by the hash of all it holds, prev included.
Hash == Blocks \cup {Zero}

(***************************************************************************)
(* A block file is absent, cut short (being written, or left so by a       *)
(* crash), or complete.                                                    *)
(***************************************************************************)
FileState == {"none", "partial", "full"}

MainPC == {"load", "stage1", "stage2", "save", "import", "clear_lbi",
           "get_tail", "update", "stage3", "in_sync", "stage4"}

SyncPC == {"loop", "get_prev", "set_cur", "query", "reset", "reset_apps",
           "reset_lbi", "wait4file", "patch", "import", "get_tail", "update",
           "set_tail", "clear", "clear_lbi", "wait"}

VARIABLES
    files,         \* disk: state of blocks/<hash>
    headfile,      \* disk: blocks/head
    writing,       \* files a network worker has open for writing
    db,            \* blocks applied to the apps' databases
    lbi,           \* daemon::last_block_imported
    tip,           \* app::chaininfo.tip, what the last vote elected
    head, cur, tail, resume,             \* syncd_t, guarded by syncd_t::mx
    mpc, new_diff, voted, mtip, mtail,   \* main: cycle.new_diff, a vote of
                                         \* our own in votes, eat_diff's locals
    spc, cu, prv, patches, pi, stail,    \* syncd_t::run and patch_db locals
    last_queryed, query_reps,
    crashes,       \* number of crashes so far
    raced          \* history: an import fell between the two halves of clear()

disk == <<files, headfile, writing>>

\* daemon: the apps' databases and last_block_imported, under mx_import
ledger == <<db, lbi, raced>>

\* syncd_t
shared == <<head, cur, tail, resume>>

\* cycle_t: the stage the main loop is in and the block it made
mainv == <<mpc, new_diff, voted, mtip, mtail, tip>>
syncv == <<spc, cu, prv, patches, pi, stail, last_queryed, query_reps>>
vars == <<disk, ledger, shared, mainv, syncv, crashes>>

\* The types of the variables of disk, ledger, main loop and syncd.
TypeOK ==
    /\ files \in [Blocks -> FileState]
    /\ headfile \in Hash
    /\ writing \in SUBSET Blocks
    /\ db \in Seq(Blocks)
    /\ lbi \in Hash
    /\ tip \in Hash
    /\ head \in Hash /\ cur \in Hash /\ tail \in Hash
    /\ resume \in BOOLEAN
    /\ mpc \in MainPC
    /\ new_diff \in Hash
    /\ voted \in BOOLEAN
    /\ mtip \in Hash /\ mtail \in Hash
    /\ spc \in SyncPC
    /\ cu \in Hash /\ prv \in Hash /\ stail \in Hash
    /\ patches \in Seq(Blocks)
    /\ pi \in 0..Len(patches)
    /\ last_queryed \in Hash
    /\ query_reps \in -1..Reps
    /\ crashes \in 0..MaxCrashes
    /\ raced \in BOOLEAN

-----------------------------------------------------------------------------
(***************************************************************************)
(* What a first start finds on disk: no blocks, or those of us-genesis     *)
(* (start_new_blockchain), which runs in a new home directory only: one    *)
(* block without predecessor, made of a single local delta, saved and then *)
(* imported, which writes the head file.                                   *)
(***************************************************************************)
EmptyHome == headfile = Zero /\ files = [c \in Blocks |-> "none"]

StartNewBlockchain(b) ==
    /\ Prev[b] = Zero
    /\ headfile = b
    /\ files = [c \in Blocks |-> IF c = b THEN "full" ELSE "none"]

(***************************************************************************)
(* The program starts.  The apps' databases live in memory only, so a      *)
(* start finds them empty.                                                 *)
(***************************************************************************)
Init ==
    /\ db = <<>> /\ lbi = Zero /\ raced = FALSE
    /\ head = Zero /\ cur = Zero /\ tail = Zero /\ resume = FALSE
    /\ mpc = "load" /\ new_diff = Zero /\ voted = FALSE
    /\ mtip = Zero /\ mtail = Zero /\ tip = Zero
    /\ spc = "loop" /\ cu = Zero /\ prv = Zero /\ patches = <<>> /\ pi = 0
    /\ stail = Zero /\ last_queryed = Zero /\ query_reps = Reps
    /\ writing = {} /\ crashes = 0
    /\ EmptyHome \/ \E b \in Blocks : StartNewBlockchain(b)

-----------------------------------------------------------------------------
(***************************************************************************)
(* Operations both threads perform on the ledger.                          *)
(***************************************************************************)

\* Mutant: import without the check of the block's predecessor.
Mut_InSequence(b) == TRUE

\* daemon::import accepts a block only in sequence.
InSequence(b) == Prev[b] = lbi

\* Whether the other thread is between the two halves of clear(): apps are
\* cleared without mx_import, last_block_imported under it.
ClearingIn(pc) == pc \in {"clear_lbi", "reset_lbi"}

\* set_last_block_imported_ writes the variable and the head file together.
SetLastBlockImported(h) ==
    /\ lbi' = h
    /\ headfile' = h

\* daemon::import, all of it under mx_import; otherpc is the other thread's pc.
\* The stages of connected peers and the seed of the apps' random choices, which
\* it sets too, are left out: nothing here reads them.
Import(b, otherpc) ==
    /\ InSequence(b)
    /\ db' = Append(db, b)
    /\ SetLastBlockImported(b)
    /\ raced' = (raced \/ ClearingIn(otherpc))

\* Mutant: clear() forgets the apps.
Mut_ClearApps == UNCHANGED <<db, lbi, headfile, raced>>

\* First half of daemon::clear: every app drops its database.
ClearApps ==
    /\ db' = <<>>
    /\ UNCHANGED <<lbi, headfile, raced>>

\* Second half of daemon::clear.
ClearLastBlock ==
    /\ SetLastBlockImported(Zero)
    /\ UNCHANGED <<db, raced>>

\* syncd_t::update(h,t)
Update2(h, t) ==
    /\ head' = h
    /\ cur' = h
    /\ tail' = t
    /\ resume' = TRUE

\* syncd_t::update(t)
Update1(t) ==
    /\ tail' = t
    /\ cur' = head
    /\ resume' = TRUE
    /\ UNCHANGED head

\* syncd_t::in_sync
InSync == head = tail

\* auth::app::my_stage() = node, read from the auth app's database.
IsNode == db # <<>> /\ db[Len(db)] \in NodeAt

-----------------------------------------------------------------------------
(***************************************************************************)
(* The main loop.  Stages start on the wall clock, 10 to 20 seconds apart, *)
(* and disk work normally takes milliseconds.  Timely restricts the model  *)
(* to that case: a stage starts when syncd is asleep, and syncd does not   *)
(* read a file in the middle of its being written.  With Timely = FALSE    *)
(* all the threads interleave freely.                                      *)
(***************************************************************************)
StageStarts == Timely => spc = "wait4file" \/ (spc = "wait" /\ ~resume)

\* save() or a network worker has blocks/b open for writing.
BeingWritten(b) == b \in writing \/ (mpc = "import" /\ new_diff = b)

Readable(b) == Timely => ~BeingWritten(b)

LoadHead ==
    /\ mpc = "load" /\ StageStarts
    /\ Update2(headfile, lbi)
    /\ tip' = headfile
    /\ mpc' = "stage1"
    /\ UNCHANGED <<disk, ledger, new_diff, voted, mtip, mtail, syncv, crashes>>

Stage1 ==
    /\ mpc = "stage1" /\ StageStarts
    /\ voted' = (voted \/ (new_diff # Zero /\ IsNode))
    /\ mpc' = "stage2"
    /\ UNCHANGED <<disk, ledger, shared, new_diff, mtip, mtail, tip, syncv, crashes>>

\* Mutant: eat_diff keeps a new_diff that lost the vote.
Mut_Stage2(t) ==
    /\ mpc = "stage2" /\ StageStarts
    /\ voted => t # Zero
    /\ voted' = FALSE
    /\ tip' = t
    /\ mtip' = t
    /\ mpc' = IF t = Zero THEN "stage3" ELSE IF t = new_diff THEN "save" ELSE "get_tail"
    /\ UNCHANGED <<disk, ledger, shared, new_diff, mtail, syncv, crashes>>

\* votes.select() gives zero only without votes; then eat_diff is not called.
Stage2(t) ==
    /\ mpc = "stage2" /\ StageStarts
    /\ voted => t # Zero
    /\ voted' = FALSE
    /\ tip' = t
    /\ mtip' = t
    /\ \/ t = Zero /\ mpc' = "stage3" /\ UNCHANGED new_diff
       \/ t # Zero /\ t = new_diff /\ mpc' = "save" /\ UNCHANGED new_diff
       \/ t # Zero /\ t # new_diff /\ mpc' = "get_tail" /\ new_diff' = Zero
    /\ UNCHANGED <<disk, ledger, shared, mtail, syncv, crashes>>

\* Mutant: eat_diff imports without saving.
Mut_SaveBegin ==
    /\ mpc = "save"
    /\ mpc' = "import"
    /\ UNCHANGED <<disk, ledger, shared, new_diff, voted, mtip, mtail, tip, syncv, crashes>>

\* save() truncates blocks/<hash>, then writes it.
SaveBegin ==
    /\ mpc = "save"
    /\ files' = [files EXCEPT ![new_diff] = "partial"]
    /\ mpc' = "import"
    /\ UNCHANGED <<headfile, writing, ledger, shared, new_diff, voted, mtip, mtail, tip, syncv, crashes>>

\* The state of a file when one of its writers closes it; a file that was
\* removed meanwhile stays removed.
Closed(b, otherwriter) ==
    IF files[b] = "partial" /\ ~otherwriter THEN "full" ELSE files[b]

SaveEnd == files' = [files EXCEPT ![new_diff] = Closed(new_diff, new_diff \in writing)]

\* The rest of save(), then import(new_diff).
ImportNewDiff ==
    /\ mpc = "import"
    /\ SaveEnd
    /\ \/ /\ Import(new_diff, spc)
          /\ mpc' = "get_tail"
       \/ /\ ~InSequence(new_diff)
          /\ ClearApps
          /\ mpc' = "clear_lbi"
    /\ new_diff' = Zero
    /\ UNCHANGED <<writing, shared, voted, mtip, mtail, tip, syncv, crashes>>

MainClearLbi ==
    /\ mpc = "clear_lbi"
    /\ ClearLastBlock
    /\ mpc' = "get_tail"
    /\ UNCHANGED <<files, writing, shared, new_diff, voted, mtip, mtail, tip, syncv, crashes>>

\* get_last_block_imported() of the call syncd.update(voted_tip,...)
GetTail ==
    /\ mpc = "get_tail"
    /\ mtail' = lbi
    /\ mpc' = "update"
    /\ UNCHANGED <<disk, ledger, shared, new_diff, voted, mtip, tip, syncv, crashes>>

UpdateSyncd ==
    /\ mpc = "update"
    /\ Update2(mtip, mtail)
    /\ mpc' = "stage3"
    /\ mtip' = Zero /\ mtail' = Zero
    /\ UNCHANGED <<disk, ledger, new_diff, voted, tip, syncv, crashes>>

Stage3 ==
    /\ mpc = "stage3" /\ StageStarts
    /\ mpc' = IF IsNode THEN "in_sync" ELSE "stage1"
    /\ UNCHANGED <<disk, ledger, shared, new_diff, voted, mtip, mtail, tip, syncv, crashes>>

\* The rest of stage3: local deltas are created only when in sync.
Stage3InSync ==
    /\ mpc = "in_sync"
    /\ mpc' = IF InSync THEN "stage4" ELSE "stage1"
    /\ UNCHANGED <<disk, ledger, shared, new_diff, voted, mtip, mtail, tip, syncv, crashes>>

\* The pool becomes new_diff, linked to the last block imported.
Stage4(b) ==
    /\ mpc = "stage4" /\ StageStarts
    /\ Prev[b] = lbi
    /\ new_diff' = b
    /\ mpc' = "stage1"
    /\ UNCHANGED <<disk, ledger, shared, voted, mtip, mtail, tip, syncv, crashes>>

\* Bound: the block this cycle would build is not one of Blocks.
Stage4Bound ==
    /\ mpc = "stage4" /\ StageStarts
    /\ \A b \in Blocks : Prev[b] # lbi
    /\ mpc' = "stage1"
    /\ UNCHANGED <<disk, ledger, shared, new_diff, voted, mtip, mtail, tip, syncv, crashes>>

Main ==
    \/ LoadHead \/ Stage1 \/ \E t \in Hash : Stage2(t)
    \/ SaveBegin \/ ImportNewDiff \/ MainClearLbi \/ GetTail \/ UpdateSyncd
    \/ Stage3 \/ Stage3InSync \/ \E b \in Blocks : Stage4(b) \/ Stage4Bound

-----------------------------------------------------------------------------
(***************************************************************************)
(* The syncd thread.                                                       *)
(***************************************************************************)
SyncLocals == <<prv, pi, stail, last_queryed, query_reps>>

\* One evaluation of the loop's exit conditions under mx.
LoopTop ==
    /\ spc = "loop"
    /\ IF cur = tail \/ head = Zero \/ cur = Zero
       THEN /\ spc' = IF patches = <<>> THEN "wait" ELSE "patch"
            /\ pi' = Len(patches)
            /\ UNCHANGED <<cu, patches>>
       ELSE /\ cu' = cur
            /\ patches' = IF cur = head THEN <<>> ELSE patches
            /\ pi' = 0
            /\ spc' = "get_prev"
    /\ UNCHANGED <<disk, ledger, shared, mainv, prv, stail, last_queryed, query_reps, crashes>>

\* daemon::get_prev: what a file cut short yields is its prev or, when not
\* even that is there, zero.
GetPrev(p) ==
    /\ spc = "get_prev" /\ Readable(cu)
    /\ \/ /\ files[cu] = "none"
          /\ p = Zero
          /\ spc' = "query"
          /\ UNCHANGED <<prv, patches>>
       \/ /\ files[cu] # "none"
          /\ p = Prev[cu] \/ (files[cu] = "partial" /\ p = Zero)
          /\ prv' = p
          /\ patches' = Append(patches, cu)
          /\ spc' = "set_cur"
    /\ UNCHANGED <<disk, ledger, shared, mainv, cu, pi, stail, last_queryed, query_reps, crashes>>

SetCur ==
    /\ spc = "set_cur"
    /\ cur' = prv
    /\ cu' = Zero /\ prv' = Zero
    /\ spc' = "loop"
    /\ UNCHANGED <<disk, ledger, head, tail, resume, mainv, patches, pi, stail, last_queryed, query_reps, crashes>>

\* query_block found a peer: count repeated petitions of one block down.  At
\* zero the counter is not rearmed; what is below zero stays there.
QueryDelivered ==
    /\ spc = "query"
    /\ IF last_queryed # cu
       THEN /\ last_queryed' = cu
            /\ query_reps' = Reps
            /\ spc' = "wait4file"
       ELSE /\ query_reps' = IF query_reps < 0 THEN -1 ELSE query_reps - 1
            /\ spc' = IF query_reps = 1 THEN "reset" ELSE "wait4file"
            /\ UNCHANGED last_queryed
    /\ cu' = Zero
    /\ UNCHANGED <<disk, ledger, shared, mainv, prv, patches, pi, stail, crashes>>

\* query_block found no peer, or the delivery failed.
QueryUndelivered ==
    /\ spc = "query"
    /\ spc' = "wait4file"
    /\ cu' = Zero
    /\ UNCHANGED <<disk, ledger, shared, mainv, SyncLocals, patches, crashes>>

Reset ==
    /\ spc = "reset"
    /\ head' = Zero /\ cur' = Zero /\ tail' = Zero
    /\ spc' = "reset_apps"
    /\ UNCHANGED <<disk, ledger, resume, mainv, cu, SyncLocals, patches, crashes>>

ResetApps ==
    /\ spc = "reset_apps"
    /\ ClearApps
    /\ spc' = "reset_lbi"
    /\ UNCHANGED <<files, writing, shared, mainv, cu, SyncLocals, patches, crashes>>

ResetLbi ==
    /\ spc = "reset_lbi"
    /\ ClearLastBlock
    /\ spc' = "wait4file"
    /\ UNCHANGED <<files, writing, shared, mainv, cu, SyncLocals, patches, crashes>>

\* Until file_arrived or for 3 seconds; file_arrived only shortens the wait.
Wait4File ==
    /\ spc = "wait4file"
    /\ spc' = "loop"
    /\ UNCHANGED <<disk, ledger, shared, mainv, cu, SyncLocals, patches, crashes>>

\* Mutant: a corrupt file is left on disk.
Mut_PatchRead ==
    /\ spc = "patch" /\ Readable(patches[pi])
    /\ spc' = IF files[patches[pi]] = "full" THEN "import" ELSE "clear"
    /\ UNCHANGED <<disk, ledger, shared, mainv, cu, SyncLocals, patches, crashes>>

\* patch_db, from the oldest patch: a file that does not hold the block its
\* name says is removed and patching fails.
PatchRead ==
    /\ spc = "patch" /\ Readable(patches[pi])
    /\ \/ /\ files[patches[pi]] = "full"
          /\ spc' = "import"
          /\ UNCHANGED files
       \/ /\ files[patches[pi]] # "full"
          /\ files' = [files EXCEPT ![patches[pi]] = "none"]
          /\ spc' = "clear"
    /\ UNCHANGED <<headfile, writing, ledger, shared, mainv, cu, SyncLocals, patches, crashes>>

PatchImport ==
    /\ spc = "import"
    /\ \/ /\ Import(patches[pi], mpc)
          /\ pi' = pi - 1
          /\ spc' = IF pi = 1 THEN "get_tail" ELSE "patch"
       \/ /\ ~InSequence(patches[pi])
          /\ spc' = "clear"
          /\ UNCHANGED <<ledger, headfile, pi>>
    /\ UNCHANGED <<files, writing, shared, mainv, cu, prv, stail, last_queryed, query_reps, patches, crashes>>

PatchGetTail ==
    /\ spc = "get_tail"
    /\ stail' = lbi
    /\ spc' = "update"
    /\ UNCHANGED <<disk, ledger, shared, mainv, cu, prv, pi, last_queryed, query_reps, patches, crashes>>

PatchUpdate ==
    /\ spc = "update"
    /\ Update1(stail)
    /\ stail' = Zero
    /\ spc' = "set_tail"
    /\ UNCHANGED <<disk, ledger, mainv, cu, prv, pi, last_queryed, query_reps, patches, crashes>>

\* patch_db returned true: tail is the head the walk began at.
SetTail ==
    /\ spc = "set_tail"
    /\ tail' = patches[1]
    /\ patches' = <<>> /\ pi' = 0
    /\ spc' = "wait"
    /\ UNCHANGED <<disk, ledger, head, cur, resume, mainv, cu, prv, stail, last_queryed, query_reps, crashes>>

\* patch_db returned false.
SyncClearApps ==
    /\ spc = "clear"
    /\ ClearApps
    /\ patches' = <<>> /\ pi' = 0
    /\ spc' = "clear_lbi"
    /\ UNCHANGED <<files, writing, shared, mainv, cu, prv, stail, last_queryed, query_reps, crashes>>

SyncClearLbi ==
    /\ spc = "clear_lbi"
    /\ ClearLastBlock
    /\ spc' = "wait"
    /\ UNCHANGED <<files, writing, shared, mainv, cu, SyncLocals, patches, crashes>>

\* syncd_t::wait
WaitResume ==
    /\ spc = "wait"
    /\ resume
    /\ resume' = FALSE
    /\ spc' = "loop"
    /\ UNCHANGED <<disk, ledger, head, cur, tail, mainv, cu, SyncLocals, patches, crashes>>

Syncd ==
    \/ LoopTop \/ \E p \in Hash : GetPrev(p) \/ SetCur
    \/ QueryDelivered \/ QueryUndelivered \/ Reset \/ ResetApps \/ ResetLbi
    \/ Wait4File \/ PatchRead \/ PatchImport \/ PatchGetTail \/ PatchUpdate
    \/ SetTail \/ SyncClearApps \/ SyncClearLbi \/ WaitResume

-----------------------------------------------------------------------------
(***************************************************************************)
(* A network worker stores a block that is not on disk, asked for or not.  *)
(***************************************************************************)
BlockArrives(b) ==
    /\ files[b] = "none"
    /\ b \notin writing
    /\ files' = [files EXCEPT ![b] = "partial"]
    /\ writing' = writing \cup {b}
    /\ UNCHANGED <<headfile, ledger, shared, mainv, syncv, crashes>>

BlockStored(b) ==
    /\ b \in writing
    /\ writing' = writing \ {b}
    /\ files' = [files EXCEPT ![b] = Closed(b, mpc = "import" /\ new_diff = b)]
    /\ UNCHANGED <<headfile, ledger, shared, mainv, syncv, crashes>>

(***************************************************************************)
(* The process dies and is started again.  Files being written stay cut    *)
(* short; the head file, truncated and rewritten on every import, may be   *)
(* found empty, which reads as zero.                                       *)
(***************************************************************************)
Crash ==
    /\ crashes < MaxCrashes
    /\ crashes' = crashes + 1
    /\ headfile' \in {headfile, Zero}
    /\ UNCHANGED files
    /\ db' = <<>> /\ lbi' = Zero /\ raced' = FALSE
    /\ head' = Zero /\ cur' = Zero /\ tail' = Zero /\ resume' = FALSE
    /\ mpc' = "load" /\ new_diff' = Zero /\ voted' = FALSE
    /\ mtip' = Zero /\ mtail' = Zero /\ tip' = Zero
    /\ spc' = "loop" /\ cu' = Zero /\ prv' = Zero /\ patches' = <<>> /\ pi' = 0
    /\ stail' = Zero /\ last_queryed' = Zero /\ query_reps' = Reps
    /\ writing' = {}

\* The neighbours' process_query_block sends the block, as often as asked; a
\* copy that was cut short has another hash or cannot be parsed.
Network == \E b \in Blocks : BlockArrives(b) \/ BlockStored(b)

Next == Main \/ Syncd \/ Network \/ Crash

Spec == Init /\ [][Next]_vars

(***************************************************************************)
(* The threads run; of the blocks that a peer has and the node lacks, one  *)
(* at a time is delivered.                                                 *)
(***************************************************************************)
Fairness ==
    /\ WF_vars(Main)
    /\ WF_vars(Syncd)
    /\ WF_vars(Network)

LiveSpec == Spec /\ Fairness

-----------------------------------------------------------------------------
(***************************************************************************)
(* Properties.                                                             *)
(***************************************************************************)

\* s is the chain of blocks from the first one to h, each linked by prev.
IsChain(s, h) ==
    /\ \A i \in 1..Len(s) : Prev[s[i]] = IF i = 1 THEN Zero ELSE s[i-1]
    /\ h = IF s = <<>> THEN Zero ELSE s[Len(s)]

\* daemon::clear is half done in some thread.
Clearing == ClearingIn(mpc) \/ ClearingIn(spc)

\* Whatever the interleaving, the blocks applied to the apps' databases are a
\* chain linked by prev from a first block to last_block_imported, unless an
\* import fell between the two halves of a clear() in the other thread.
LedgerIsChain ==
    ~raced => IF Clearing THEN db = <<>> ELSE IsChain(db, lbi)

\* stage4 asserts cycle.new_diff==0: the block of the previous cycle was voted
\* on, imported or dropped before a new one is made.
NewDiffConsumed == mpc = "stage4" => new_diff = Zero

\* A finished clear() leaves the databases as empty as last_block_imported says.
ClearedIsEmpty == lbi = Zero /\ ~Clearing => db = <<>>

\* Every block applied to the databases can be read back from disk, or is just
\* being written: what a restart needs to rebuild them.
ImportedOnDisk ==
    \A i \in 1..Len(db) : files[db[i]] = "full" \/ BeingWritten(db[i])

\* The ledger as its readers should see it; once an import fell into a clear()
\* in progress nothing is promised until the node restarts.
Promised == INSTANCE Ledger WITH chain <- IF raced THEN <<>> ELSE db

\* The two threads together implement the ledger of module Ledger: no step of
\* import, patch_db, eat_diff or clear does anything but extend or discard it.
ImplementsLedger == Promised!Spec

\* When the votes settle on a block, the node ends up having imported it and
\* in sync, whichever fork it was on and whatever crashes left on its disk.
SyncReachesTip ==
    (<>[][FALSE]_tip /\ <>[](tip # Zero)) => <>[](lbi = tip /\ InSync)
============================================================================
