-------------------------- MODULE ChainSync_proofs --------------------------
(***************************************************************************)
(* Proofs about ChainSync, for every tree of blocks, every countdown and   *)
(* every number of crashes: its type invariant, LedgerIsChain and the      *)
(* refinement of Ledger for every interleaving of the threads;             *)
(* ImportedOnDisk and NewDiffConsumed when disk work is fast.              *)
(***************************************************************************)
EXTENDS ChainSync, TLAPS

\* What a thread's program counter tells of its locals: the indices and blocks
\* the code uses without a check.
LocalsOK ==
    /\ spc \in {"get_prev", "query"} => cu \in Blocks
    /\ spc \in {"patch", "import"} => pi \in 1..Len(patches)
    /\ spc \in {"get_tail", "update", "set_tail"} => patches # <<>>
    /\ mpc \in {"save", "import"} => new_diff \in Blocks

IInv == TypeOK /\ LocalsOK /\ LedgerIsChain

USE DEF Hash, FileState, MainPC, SyncPC

\* Appending a block to a sequence, in the form used below; stated once because
\* it concerns sequences only.
LEMMA AppendBlock ==
    ASSUME NEW S, NEW s \in Seq(S), NEW e \in S
    PROVE  /\ Append(s, e) \in Seq(S)
           /\ Len(Append(s, e)) = Len(s) + 1
           /\ Append(s, e) # <<>>
           /\ Append(s, e)[Len(s) + 1] = e
           /\ \A i \in 1..Len(s) : Append(s, e)[i] = s[i]
  OBVIOUS

\* The empty sequence, to which clear() and a restart set db and patches.
LEMMA EmptySeq ==
    ASSUME NEW S
    PROVE  <<>> \in Seq(S) /\ Len(<<>>) = 0
  OBVIOUS

\* A sequence that is not empty has a last element.
LEMMA NonEmptySeq ==
    ASSUME NEW S, NEW s \in Seq(S), s # <<>>
    PROVE  Len(s) \in Nat /\ Len(s) >= 1 /\ s[1] \in S /\ s[Len(s)] \in S
  OBVIOUS

\* A chain stays one when a block that links to its end is appended.
LEMMA ExtendChain ==
    ASSUME NEW s \in Seq(Blocks), NEW h, NEW e \in Blocks,
           IsChain(s, h), Prev[e] = h
    PROVE  IsChain(Append(s, e), e)
<1> DEFINE t == Append(s, e)
<1>1. /\ Len(t) = Len(s) + 1 /\ Len(s) \in Nat
      /\ t # <<>> /\ t[Len(t)] = e
      /\ \A i \in 1..Len(s) : t[i] = s[i]
  BY AppendBlock
<1>2. ASSUME NEW i \in 1..Len(t)
      PROVE  Prev[t[i]] = IF i = 1 THEN Zero ELSE t[i-1]
  <2>1. CASE i \in 1..Len(s)
    <3>1. t[i] = s[i] /\ (i # 1 => t[i-1] = s[i-1])
      BY <1>1, <2>1
    <3>2. Prev[s[i]] = IF i = 1 THEN Zero ELSE s[i-1]
      BY <2>1 DEF IsChain
    <3> QED BY <3>1, <3>2
  <2>2. CASE i = Len(s) + 1
    <3>1. CASE s = <<>>
      BY <1>1, <2>2, <3>1 DEF IsChain
    <3>2. CASE s # <<>>
      <4>1. Len(s) >= 1
        BY <3>2, NonEmptySeq
      <4>2. i # 1 /\ t[i-1] = s[Len(s)]
        BY <1>1, <2>2, <4>1
      <4> QED BY <1>1, <2>2, <3>2, <4>2 DEF IsChain
    <3> QED BY <3>1, <3>2
  <2> QED BY <1>1, <2>1, <2>2
<1> QED BY <1>1, <1>2 DEF IsChain

\* Every step keeps the types and what the program counters tell.
LEMMA TypeStep ==
    ASSUME TypeOK, LocalsOK, [Next]_vars
    PROVE  TypeOK' /\ LocalsOK'
<1> USE ZeroAssumption, PrevAssumption, RepsAssumption, MaxCrashesAssumption, EmptySeq
    DEF TypeOK, LocalsOK, SyncLocals, disk, ledger, shared, mainv, syncv
<1>1. CASE LoadHead
  BY <1>1 DEF LoadHead, Update2
<1>2. CASE Stage1
  BY <1>2 DEF Stage1
<1>3. ASSUME NEW t \in Hash, Stage2(t) PROVE TypeOK' /\ LocalsOK'
  <2>1. UNCHANGED <<files, headfile, writing, db, lbi, raced, head, cur, tail, resume, mtail, crashes>>
        /\ UNCHANGED <<spc, cu, prv, patches, pi, stail, last_queryed, query_reps>>
        /\ voted' \in BOOLEAN /\ tip' \in Hash /\ mtip' \in Hash
    BY <1>3 DEF Stage2
  <2>2. /\ mpc' \in {"stage3", "save", "get_tail"}
        /\ new_diff' \in Hash
        /\ mpc' = "save" => new_diff' \in Blocks
    BY <1>3 DEF Stage2
  <2> QED BY <2>1, <2>2
<1>4. CASE SaveBegin
  BY <1>4 DEF SaveBegin
<1>5. CASE ImportNewDiff
  <2>1. /\ files' = [files EXCEPT ![new_diff] = Closed(new_diff, new_diff \in writing)]
        /\ new_diff \in Blocks /\ new_diff' = Zero
        /\ mpc' \in {"get_tail", "clear_lbi"}
        /\ UNCHANGED <<writing, head, cur, tail, resume, voted, mtip, mtail, tip, crashes>>
        /\ UNCHANGED <<spc, cu, prv, patches, pi, stail, last_queryed, query_reps>>
    BY <1>5 DEF ImportNewDiff, SaveEnd
  <2>2. files' \in [Blocks -> FileState]
    BY <2>1 DEF Closed
  <2>3. db' \in Seq(Blocks) /\ lbi' \in Hash /\ headfile' \in Hash
    <3>1. CASE Import(new_diff, spc)
      BY <2>1, <3>1, AppendBlock DEF Import, SetLastBlockImported
    <3>2. CASE ClearApps
      BY <3>2 DEF ClearApps
    <3> QED BY <1>5, <3>1, <3>2 DEF ImportNewDiff
  <2>4. raced' \in BOOLEAN
    BY <1>5 DEF ImportNewDiff, Import, ClearApps
  <2> QED BY <2>1, <2>2, <2>3, <2>4
<1>6. CASE MainClearLbi
  BY <1>6 DEF MainClearLbi, ClearLastBlock, SetLastBlockImported
<1>7. CASE GetTail
  BY <1>7 DEF GetTail
<1>8. CASE UpdateSyncd
  BY <1>8 DEF UpdateSyncd, Update2
<1>9. CASE Stage3
  BY <1>9 DEF Stage3
<1>10. CASE Stage3InSync
  BY <1>10 DEF Stage3InSync
<1>11. ASSUME NEW b \in Blocks, Stage4(b) PROVE TypeOK' /\ LocalsOK'
  BY <1>11 DEF Stage4
<1>12. CASE Stage4Bound
  BY <1>12 DEF Stage4Bound
<1>13. CASE LoopTop
  <2>1. UNCHANGED <<files, headfile, writing, db, lbi, raced, head, cur, tail, resume, crashes>>
        /\ UNCHANGED <<mpc, new_diff, voted, mtip, mtail, tip, prv, stail, last_queryed, query_reps>>
    BY <1>13 DEF LoopTop
  <2>2. /\ spc' \in {"wait", "patch", "get_prev"}
        /\ cu' \in Hash /\ patches' \in Seq(Blocks) /\ pi' \in 0..Len(patches')
    <3>1. CASE spc' = "get_prev" /\ cu' = cur /\ pi' = 0 /\ patches' \in {<<>>, patches}
      <4>1. patches' \in Seq(Blocks)
        BY <3>1, ZenonT(60)
      <4>2. Len(patches') \in Nat
        BY <4>1
      <4> QED BY <3>1, <4>1, <4>2
    <3>2. CASE spc' \in {"wait", "patch"} /\ pi' = Len(patches) /\ cu' = cu /\ patches' = patches
      BY <3>2
    <3> QED BY <1>13, <3>1, <3>2 DEF LoopTop
  <2>3. spc' = "get_prev" => cu' \in Blocks
    BY <1>13 DEF LoopTop
  <2>4. spc' = "patch" => pi' \in 1..Len(patches')
    BY <1>13, NonEmptySeq DEF LoopTop
  <2> QED BY <2>1, <2>2, <2>3, <2>4
<1>14. ASSUME NEW p \in Hash, GetPrev(p) PROVE TypeOK' /\ LocalsOK'
  <2>1. /\ UNCHANGED <<files, headfile, writing, db, lbi, raced, head, cur, tail, resume, crashes>>
        /\ UNCHANGED <<mpc, new_diff, voted, mtip, mtail, tip, cu, pi, stail, last_queryed, query_reps>>
        /\ cu \in Blocks
        /\ spc' \in {"query", "set_cur"}
    BY <1>14 DEF GetPrev
  <2>2. prv' \in Hash /\ patches' \in Seq(Blocks) /\ Len(patches') >= Len(patches)
    <3>1. CASE patches' = patches /\ prv' = prv
      BY <3>1
    <3>2. CASE patches' = Append(patches, cu) /\ prv' = p
      BY <2>1, <3>2, AppendBlock
    <3> QED BY <1>14, <3>1, <3>2 DEF GetPrev
  <2>3. pi' \in 0..Len(patches')
    BY <2>1, <2>2
  <2> QED BY <2>1, <2>2, <2>3
<1>15. CASE SetCur
  BY <1>15 DEF SetCur
<1>16. CASE QueryDelivered
  BY <1>16 DEF QueryDelivered
<1>17. CASE QueryUndelivered
  BY <1>17 DEF QueryUndelivered
<1>18. CASE Reset
  BY <1>18 DEF Reset
<1>19. CASE ResetApps
  BY <1>19 DEF ResetApps, ClearApps
<1>20. CASE ResetLbi
  BY <1>20 DEF ResetLbi, ClearLastBlock, SetLastBlockImported
<1>21. CASE Wait4File
  BY <1>21 DEF Wait4File
<1>22. CASE PatchRead
  BY <1>22 DEF PatchRead
<1>23. CASE PatchImport
  <2>1. /\ UNCHANGED <<files, writing, head, cur, tail, resume, mpc, new_diff, voted, mtip, mtail, tip>>
        /\ UNCHANGED <<cu, prv, stail, last_queryed, query_reps, patches, crashes>>
        /\ pi \in 1..Len(patches) /\ patches[pi] \in Blocks /\ patches # <<>>
    BY <1>23 DEF PatchImport
  <2>2. CASE Import(patches[pi], mpc) /\ pi' = pi - 1 /\ spc' = IF pi = 1 THEN "get_tail" ELSE "patch"
    <3>1. db' \in Seq(Blocks) /\ lbi' \in Hash /\ headfile' \in Hash
      BY <2>1, <2>2, AppendBlock DEF Import, SetLastBlockImported
    <3>2. raced' \in BOOLEAN
      BY <2>2 DEF Import
    <3>3. pi' \in 0..Len(patches) /\ (spc' = "patch" => pi' \in 1..Len(patches)) /\ spc' \in {"get_tail", "patch"}
      BY <2>1, <2>2
    <3> QED BY <2>1, <3>1, <3>2, <3>3
  <2>3. CASE spc' = "clear" /\ UNCHANGED <<db, lbi, raced, headfile, pi>>
    BY <2>1, <2>3
  <2> QED BY <1>23, <2>2, <2>3 DEF PatchImport
<1>24. CASE PatchGetTail
  BY <1>24 DEF PatchGetTail
<1>25. CASE PatchUpdate
  BY <1>25 DEF PatchUpdate, Update1
<1>26. CASE SetTail
  BY <1>26 DEF SetTail
<1>27. CASE SyncClearApps
  BY <1>27 DEF SyncClearApps, ClearApps
<1>28. CASE SyncClearLbi
  BY <1>28 DEF SyncClearLbi, ClearLastBlock, SetLastBlockImported
<1>29. CASE WaitResume
  <2>1. resume' \in BOOLEAN /\ spc' = "loop"
        /\ UNCHANGED <<files, headfile, writing, db, lbi, raced, head, cur, tail, crashes>>
        /\ UNCHANGED <<mpc, new_diff, voted, mtip, mtail, tip, cu, prv, pi, stail, last_queryed, query_reps, patches>>
    BY <1>29, Zenon DEF WaitResume
  <2> QED BY <2>1
<1>30. ASSUME NEW b \in Blocks, BlockArrives(b) PROVE TypeOK' /\ LocalsOK'
  BY <1>30 DEF BlockArrives
<1>31. ASSUME NEW b \in Blocks, BlockStored(b) PROVE TypeOK' /\ LocalsOK'
  BY <1>31 DEF BlockStored, Closed
<1>32. CASE Crash
  <2>1. crashes' \in 0..MaxCrashes
    BY <1>32 DEF Crash
  <2>2. headfile' \in Hash /\ UNCHANGED files
    BY <1>32 DEF Crash
  <2>3. raced' \in BOOLEAN /\ resume' \in BOOLEAN /\ voted' \in BOOLEAN
    BY <1>32 DEF Crash
  <2>4. /\ db' = <<>> /\ lbi' = Zero /\ head' = Zero /\ cur' = Zero /\ tail' = Zero
        /\ mpc' = "load" /\ new_diff' = Zero /\ mtip' = Zero /\ mtail' = Zero /\ tip' = Zero
        /\ spc' = "loop" /\ cu' = Zero /\ prv' = Zero /\ patches' = <<>> /\ pi' = 0
        /\ stail' = Zero /\ last_queryed' = Zero /\ query_reps' = Reps /\ writing' = {}
    BY <1>32 DEF Crash
  <2> QED BY <2>1, <2>2, <2>3, <2>4
<1>33. CASE UNCHANGED vars
  BY <1>33 DEF vars
<1> QED
  BY <1>1, <1>2, <1>3, <1>4, <1>5, <1>6, <1>7, <1>8, <1>9, <1>10, <1>11, <1>12, <1>13, <1>14, <1>15, <1>16, <1>17, <1>18, <1>19, <1>20, <1>21, <1>22, <1>23, <1>24, <1>25, <1>26, <1>27, <1>28, <1>29, <1>30, <1>31, <1>32, <1>33 DEF Next, Network, Main, Syncd

\* Every step keeps LedgerIsChain.  An import is the interesting one: either no
\* clear() is half done, and the block links to the end of the chain, or one is
\* half done in the other thread, and the step is marked as a race.
LEMMA ChainStep ==
    ASSUME TypeOK, LocalsOK, LedgerIsChain, [Next]_vars
    PROVE  LedgerIsChain'
<1>1. ASSUME NEW b \in Blocks, NEW otherpc, Import(b, otherpc), ~ClearingIn(otherpc) => ~Clearing,
             ~Clearing' \/ ClearingIn(otherpc)
      PROVE  LedgerIsChain'
  <2>1. CASE raced'
    BY <2>1 DEF LedgerIsChain
  <2>2. CASE ~raced'
    <3>1. ~raced /\ ~ClearingIn(otherpc)
      BY <1>1, <2>2 DEF Import
    <3>2. IsChain(db, lbi)
      BY <1>1, <3>1 DEF LedgerIsChain
    <3>3. IsChain(Append(db, b), b)
      BY <1>1, <3>2, ExtendChain DEF TypeOK, Import, InSequence
    <3>4. IsChain(db', lbi')
      BY <1>1, <3>3 DEF Import, SetLastBlockImported
    <3> QED BY <1>1, <3>1, <3>4 DEF LedgerIsChain
  <2> QED BY <2>1, <2>2
<1>2. ASSUME db' = <<>>, lbi' = Zero \/ Clearing'
      PROVE  LedgerIsChain'
  BY <1>2 DEF LedgerIsChain, IsChain
<1>3. ASSUME ClearLastBlock, Clearing
      PROVE  LedgerIsChain'
  <2>1. CASE raced
    BY <1>3, <2>1 DEF LedgerIsChain, ClearLastBlock
  <2>2. CASE ~raced
    BY <1>2, <1>3, <2>2 DEF LedgerIsChain, ClearLastBlock, SetLastBlockImported
  <2> QED BY <2>1, <2>2
<1>4. ASSUME UNCHANGED <<db, lbi, raced>>, Clearing' = Clearing
      PROVE  LedgerIsChain'
  BY <1>4 DEF LedgerIsChain, IsChain
<1>5. CASE ImportNewDiff
  <2>1. CASE Import(new_diff, spc) /\ mpc' = "get_tail"
    <3>1. new_diff \in Blocks /\ ~ClearingIn(mpc) /\ ~ClearingIn(mpc') /\ spc' = spc
      BY <1>5, <2>1 DEF ImportNewDiff, LocalsOK, ClearingIn, syncv
    <3> QED BY <1>1, <2>1, <3>1 DEF Clearing
  <2>2. CASE ClearApps /\ mpc' = "clear_lbi"
    BY <1>2, <2>2 DEF ClearApps, Clearing, ClearingIn
  <2> QED BY <1>5, <2>1, <2>2 DEF ImportNewDiff
<1>6. CASE PatchImport
  <2>1. mpc' = mpc /\ ~ClearingIn(spc) /\ ~ClearingIn(spc')
    BY <1>6 DEF PatchImport, mainv, ClearingIn
  <2>2. CASE Import(patches[pi], mpc)
    <3>1. patches[pi] \in Blocks
      BY <1>6 DEF PatchImport, LocalsOK, TypeOK
    <3> QED BY <1>1, <2>1, <2>2, <3>1 DEF Clearing
  <2>3. CASE UNCHANGED <<db, lbi, raced>>
    BY <1>4, <2>1, <2>3 DEF Clearing
  <2> QED BY <1>6, <2>2, <2>3 DEF PatchImport, ledger
<1>7. CASE MainClearLbi \/ ResetLbi \/ SyncClearLbi
  BY <1>3, <1>7 DEF MainClearLbi, ResetLbi, SyncClearLbi, Clearing, ClearingIn
<1>8. CASE ResetApps \/ SyncClearApps
  BY <1>2, <1>8 DEF ResetApps, SyncClearApps, ClearApps, Clearing, ClearingIn
<1>9. CASE Crash
  BY <1>2, <1>9 DEF Crash
<1>10. CASE UNCHANGED vars
  BY <1>4, <1>10 DEF vars, ledger, mainv, syncv, Clearing
<1>11. CASE \/ LoadHead \/ Stage1 \/ (\E t \in Hash : Stage2(t)) \/ SaveBegin \/ GetTail
            \/ UpdateSyncd \/ Stage3 \/ Stage3InSync
            \/ (\E b \in Blocks : Stage4(b)) \/ Stage4Bound
  <2>1. UNCHANGED <<db, lbi, raced>> /\ spc' = spc /\ ~ClearingIn(mpc) /\ ~ClearingIn(mpc')
    BY <1>11 DEF LoadHead, Stage1, Stage2, SaveBegin, GetTail, UpdateSyncd, Stage3,
                 Stage3InSync, Stage4, Stage4Bound, ledger, syncv, ClearingIn
  <2> QED BY <1>4, <2>1 DEF Clearing
<1>12. CASE \/ LoopTop \/ (\E p \in Hash : GetPrev(p)) \/ SetCur \/ QueryDelivered
            \/ QueryUndelivered \/ Reset \/ Wait4File \/ PatchRead \/ PatchGetTail
            \/ PatchUpdate \/ SetTail \/ WaitResume
  <2>1. UNCHANGED <<db, lbi, raced>> /\ mpc' = mpc /\ ~ClearingIn(spc) /\ ~ClearingIn(spc')
    BY <1>12 DEF LoopTop, GetPrev, SetCur, QueryDelivered, QueryUndelivered, Reset,
                 Wait4File, PatchRead, PatchGetTail, PatchUpdate, SetTail, WaitResume,
                 ledger, mainv, ClearingIn
  <2> QED BY <1>4, <2>1 DEF Clearing
<1>13. CASE Network
  BY <1>4, <1>13 DEF Network, BlockArrives, BlockStored, ledger, mainv, syncv, Clearing
<1> QED
  BY <1>5, <1>6, <1>7, <1>8, <1>9, <1>10, <1>11, <1>12, <1>13 DEF Next, Main, Syncd

\* A start satisfies the invariant: nothing is imported and no thread has moved.
LEMMA InitIInv == Init => IInv
<1> SUFFICES ASSUME Init PROVE IInv
  OBVIOUS
<1>0. files \in [Blocks -> FileState] /\ headfile \in Hash
  BY DEF Init, EmptyHome, StartNewBlockchain
<1>1. /\ resume \in BOOLEAN /\ voted \in BOOLEAN /\ raced \in BOOLEAN
      /\ crashes \in 0..MaxCrashes /\ query_reps \in -1..Reps
  <2>1. crashes \in 0..MaxCrashes
    BY MaxCrashesAssumption DEF Init, EmptyHome, StartNewBlockchain
  <2>2. query_reps \in -1..Reps
    BY RepsAssumption DEF Init, EmptyHome, StartNewBlockchain
  <2>3. resume \in BOOLEAN /\ voted \in BOOLEAN /\ raced \in BOOLEAN
    BY DEF Init, EmptyHome, StartNewBlockchain
  <2> QED BY <2>1, <2>2, <2>3
<1>2. TypeOK
  <2>1. /\ db \in Seq(Blocks) /\ patches \in Seq(Blocks) /\ pi \in 0..Len(patches)
        /\ writing \in SUBSET Blocks
    BY EmptySeq DEF Init, EmptyHome, StartNewBlockchain
  <2>2. /\ lbi \in Hash /\ tip \in Hash /\ head \in Hash /\ cur \in Hash /\ tail \in Hash
        /\ new_diff \in Hash /\ mtip \in Hash /\ mtail \in Hash /\ cu \in Hash
        /\ prv \in Hash /\ stail \in Hash /\ last_queryed \in Hash
        /\ mpc \in MainPC /\ spc \in SyncPC
    BY DEF Init, EmptyHome, StartNewBlockchain
  <2> QED BY <1>0, <1>1, <2>1, <2>2 DEF TypeOK
<1>3. LocalsOK
  BY DEF Init, EmptyHome, StartNewBlockchain, LocalsOK
<1>4. LedgerIsChain
  BY EmptySeq DEF Init, EmptyHome, StartNewBlockchain, LedgerIsChain, IsChain, Clearing, ClearingIn
<1> QED BY <1>2, <1>3, <1>4 DEF IInv

\* IInv is inductive.
LEMMA Inductive == Spec => []IInv
<1>1. IInv /\ [Next]_vars => IInv'
  BY TypeStep, ChainStep DEF IInv
<1> QED BY InitIInv, <1>1, PTL DEF Spec

\* The variables of the two threads and of the disk keep their types, whatever
\* the block tree and the interleaving of main loop, syncd and network workers.
THEOREM TypeCorrect == Spec => []TypeOK
<1>1. IInv => TypeOK
  BY DEF IInv
<1> QED BY Inductive, <1>1, PTL

\* In every behaviour of main loop and syncd the imported blocks are a chain
\* linked by prev that ends at last_block_imported, unless an import of one
\* thread fell into a clear() of the other.
THEOREM LedgerCorrect == Spec => []LedgerIsChain
<1>1. IInv => LedgerIsChain
  BY DEF IInv
<1> QED BY Inductive, <1>1, PTL

\* A step that leaves the databases and the race mark alone, empties the
\* databases, or races, extends or discards the promised ledger.
LEMMA LedgerStep ==
    ASSUME IInv, [Next]_vars
    PROVE  [Promised!Next]_(IF raced THEN <<>> ELSE db)
<1> DEFINE chain == IF raced THEN <<>> ELSE db
<1>1. CASE chain' = chain
  BY <1>1
<1>2. CASE chain' = <<>>
  BY <1>2 DEF Promised!Next, Promised!Discard
<1>3. ASSUME NEW b \in Blocks, NEW otherpc, Import(b, otherpc), ~ClearingIn(otherpc) => ~Clearing
      PROVE  [Promised!Next]_chain
  <2>1. CASE raced'
    BY <1>2, <2>1
  <2>2. CASE ~raced'
    <3>1. ~raced /\ IsChain(db, lbi)
      BY <1>3, <2>2 DEF Import, IInv, LedgerIsChain
    <3>2. db' = Append(db, b) /\ Prev[b] = lbi
      BY <1>3 DEF Import, InSequence
    <3>3. Promised!Extend(b)
      BY <2>2, <3>1, <3>2 DEF Promised!Extend, Promised!Tip, IsChain
    <3> QED BY <3>3 DEF Promised!Next
  <2> QED BY <2>1, <2>2
<1>4. CASE ImportNewDiff
  <2>1. CASE Import(new_diff, spc)
    <3>1. new_diff \in Blocks /\ ~ClearingIn(mpc)
      BY <1>4 DEF ImportNewDiff, IInv, LocalsOK, ClearingIn
    <3> QED BY <1>3, <2>1, <3>1 DEF Clearing
  <2>2. CASE ClearApps
    BY <1>2, <2>2 DEF ClearApps
  <2> QED BY <1>4, <2>1, <2>2 DEF ImportNewDiff
<1>5. CASE PatchImport
  <2>1. CASE Import(patches[pi], mpc)
    <3>1. patches[pi] \in Blocks /\ ~ClearingIn(spc)
      BY <1>5 DEF PatchImport, IInv, LocalsOK, TypeOK, ClearingIn
    <3> QED BY <1>3, <2>1, <3>1 DEF Clearing
  <2>2. CASE UNCHANGED <<db, lbi, raced>>
    BY <1>1, <2>2
  <2> QED BY <1>5, <2>1, <2>2 DEF PatchImport, ledger
<1>6. CASE ResetApps \/ SyncClearApps \/ Crash
  BY <1>2, <1>6 DEF ResetApps, SyncClearApps, ClearApps, Crash
<1>7. CASE MainClearLbi \/ ResetLbi \/ SyncClearLbi
  BY <1>1, <1>7 DEF MainClearLbi, ResetLbi, SyncClearLbi, ClearLastBlock
<1>8. CASE UNCHANGED <<db, lbi, raced>>
  BY <1>1, <1>8
<1>9. CASE \/ LoadHead \/ Stage1 \/ (\E t \in Hash : Stage2(t)) \/ SaveBegin \/ GetTail
           \/ UpdateSyncd \/ Stage3 \/ Stage3InSync
           \/ (\E b \in Blocks : Stage4(b)) \/ Stage4Bound
  BY <1>8, <1>9 DEF LoadHead, Stage1, Stage2, SaveBegin, GetTail, UpdateSyncd, Stage3,
                    Stage3InSync, Stage4, Stage4Bound, ledger
<1>10. CASE \/ LoopTop \/ (\E p \in Hash : GetPrev(p)) \/ SetCur \/ QueryDelivered
            \/ QueryUndelivered \/ Reset \/ Wait4File \/ PatchRead \/ PatchGetTail
            \/ PatchUpdate \/ SetTail \/ WaitResume
  BY <1>8, <1>10 DEF LoopTop, GetPrev, SetCur, QueryDelivered, QueryUndelivered, Reset,
                     Wait4File, PatchRead, PatchGetTail, PatchUpdate, SetTail, WaitResume, ledger
<1>11. CASE Network \/ UNCHANGED vars
  BY <1>8, <1>11 DEF Network, BlockArrives, BlockStored, vars, ledger
<1> QED
  BY <1>4, <1>5, <1>6, <1>7, <1>9, <1>10, <1>11 DEF Next, Main, Syncd

\* Main loop, syncd and network workers together implement the ledger that only
\* grows by linked blocks or is discarded as a whole.
THEOREM Refinement == Spec => ImplementsLedger
<1>1. Init => Promised!Init
  BY DEF Init, EmptyHome, StartNewBlockchain, Promised!Init
<1>2. IInv /\ [Next]_vars => [Promised!Next]_(IF raced THEN <<>> ELSE db)
  BY LedgerStep
<1> QED BY Inductive, <1>1, <1>2, PTL DEF Spec, ImplementsLedger, Promised!Spec

-----------------------------------------------------------------------------
(***************************************************************************)
(* Blocks on disk, when disk work is fast (Timely).                        *)
(***************************************************************************)

\* A block can be read back, or is just being written.
OnDisk(b) == files[b] = "full" \/ BeingWritten(b)

\* What keeps imported blocks on disk: a file that has a writer is there, and
\* the one patch_db has read stays readable until it is imported.
DiskInv ==
    /\ \A b \in writing : files[b] # "none"
    /\ mpc = "import" => files[new_diff] # "none"
    /\ spc = "import" => OnDisk(patches[pi])
    /\ ImportedOnDisk

\* A step that takes no block from the disk and imports none keeps DiskInv.
LEMMA DiskKept ==
    ASSUME IInv, DiskInv,
           \A b \in Blocks : OnDisk(b) => OnDisk(b)',
           \A b \in writing' : files'[b] # "none",
           mpc' = "import" => files'[new_diff'] # "none",
           spc' = "import" => spc = "import" /\ UNCHANGED <<patches, pi>>,
           db' = db \/ db' = <<>>
    PROVE  DiskInv'
<1>1. ASSUME spc' = "import" PROVE OnDisk(patches[pi])'
  <2>1. spc = "import" /\ patches' = patches /\ pi' = pi
    BY <1>1
  <2>2. patches[pi] \in Blocks
    BY <2>1 DEF IInv, TypeOK, LocalsOK
  <2> QED BY <2>1, <2>2 DEF DiskInv, OnDisk, BeingWritten
<1>2. ImportedOnDisk'
  <2>1. CASE db' = db
    BY <2>1 DEF DiskInv, ImportedOnDisk, OnDisk, IInv, TypeOK
  <2>2. CASE db' = <<>>
    BY <2>2 DEF ImportedOnDisk
  <2> QED BY <2>1, <2>2
<1> QED BY <1>1, <1>2 DEF DiskInv

\* Every step keeps DiskInv when disk work is fast: patch_db removes a file only
\* if nobody is writing it, so no imported block loses its file.
LEMMA DiskStep ==
    ASSUME Timely, IInv, DiskInv, [Next]_vars
    PROVE  DiskInv'
<1> USE DEF OnDisk, BeingWritten
<1>0. /\ files \in [Blocks -> FileState] /\ writing \subseteq Blocks /\ db \in Seq(Blocks)
      /\ mpc \in {"save", "import"} => new_diff \in Blocks
      /\ spc \in {"patch", "import"} => patches[pi] \in Blocks
  BY DEF IInv, TypeOK, LocalsOK
<1>1. ASSUME NEW b \in Blocks, OnDisk(b)', db' = Append(db, b),
             \A c \in Blocks : OnDisk(c) => OnDisk(c)'
      PROVE  ImportedOnDisk'
  <2>1. ASSUME NEW i \in 1..Len(db)' PROVE OnDisk(db[i])'
    <3>1. CASE i \in 1..Len(db)
      <4>1. db'[i] = db[i] /\ db[i] \in Blocks
        BY <1>0, <1>1, <3>1, AppendBlock
      <4>2. files[db[i]] = "full" \/ db[i] \in writing
               \/ (mpc = "import" /\ new_diff = db[i])
        BY <3>1 DEF DiskInv, ImportedOnDisk
      <4> QED BY <1>1, <4>1, <4>2
    <3>2. CASE i \notin 1..Len(db)
      <4>1. db'[i] = b
        BY <1>0, <1>1, <2>1, <3>2, AppendBlock
      <4> QED BY <1>1, <4>1
    <3> QED BY <3>1, <3>2
  <2> QED BY <2>1 DEF ImportedOnDisk
<1>2. CASE SaveBegin
  <2>1. /\ files' = [files EXCEPT ![new_diff] = "partial"] /\ mpc = "save" /\ mpc' = "import"
        /\ UNCHANGED <<writing, db, new_diff, spc, patches, pi>> /\ new_diff \in Blocks
    BY <1>0, <1>2 DEF SaveBegin, ledger, syncv
  <2> QED BY <1>0, <2>1, DiskKept DEF DiskInv
<1>3. CASE ImportNewDiff
  <2>1. /\ files' = [files EXCEPT ![new_diff] = Closed(new_diff, new_diff \in writing)]
        /\ mpc = "import" /\ mpc' # "import"
        /\ UNCHANGED <<writing, spc, patches, pi>> /\ new_diff \in Blocks
    BY <1>0, <1>3 DEF ImportNewDiff, SaveEnd, syncv
  <2>2. files'[new_diff] = "full" \/ new_diff \in writing
    BY <1>0, <2>1 DEF DiskInv, Closed
  <2>3. \A b \in Blocks : b # new_diff => files'[b] = files[b]
    BY <1>0, <2>1
  <2>4. \A b \in Blocks : OnDisk(b) => OnDisk(b)'
    BY <2>1, <2>2, <2>3
  <2>5. \A b \in writing' : files'[b] # "none"
    BY <1>0, <2>1, <2>3 DEF DiskInv, Closed
  <2>6. CASE Import(new_diff, spc)
    <3>1. ImportedOnDisk'
      BY <1>1, <2>1, <2>2, <2>4, <2>6 DEF Import
    <3>2. spc' = "import" => OnDisk(patches[pi])'
      BY <1>0, <2>1, <2>4 DEF DiskInv
    <3> QED BY <2>1, <2>5, <3>1, <3>2 DEF DiskInv
  <2>7. CASE ClearApps
    BY <2>1, <2>4, <2>5, <2>7, DiskKept DEF ClearApps
  <2> QED BY <1>3, <2>6, <2>7 DEF ImportNewDiff
<1>4. CASE PatchRead
  <2>1. UNCHANGED <<writing, db, mpc, new_diff, patches, pi>> /\ patches[pi] \in Blocks
    BY <1>0, <1>4 DEF PatchRead, ledger, mainv, SyncLocals
  <2>2. CASE files[patches[pi]] = "full" /\ UNCHANGED files
    BY <2>1, <2>2 DEF DiskInv, ImportedOnDisk
  <2>3. CASE /\ files[patches[pi]] # "full" /\ spc' = "clear"
             /\ files' = [files EXCEPT ![patches[pi]] = "none"]
    <3>1. ~BeingWritten(patches[pi])
      BY <1>4 DEF PatchRead, Readable
    <3>2. \A b \in Blocks : OnDisk(b) => OnDisk(b)'
      BY <1>0, <2>1, <2>3, <3>1
    <3>3. \A b \in writing' : files'[b] # "none"
      BY <1>0, <2>1, <2>3, <3>1 DEF DiskInv
    <3>4. mpc' = "import" => files'[new_diff'] # "none"
      BY <1>0, <2>1, <2>3, <3>1 DEF DiskInv
    <3> QED BY <2>1, <2>3, <3>2, <3>3, <3>4, DiskKept
  <2> QED BY <1>4, <2>2, <2>3 DEF PatchRead
<1>5. CASE PatchImport
  <2>1. /\ UNCHANGED <<files, writing, mpc, new_diff, patches>> /\ patches[pi] \in Blocks
        /\ spc = "import" /\ spc' # "import" /\ OnDisk(patches[pi])
    BY <1>0, <1>5 DEF PatchImport, mainv, DiskInv
  <2>2. CASE Import(patches[pi], mpc)
    <3>1. ImportedOnDisk'
      BY <1>1, <2>1, <2>2 DEF Import
    <3> QED BY <2>1, <3>1 DEF DiskInv
  <2>3. CASE UNCHANGED ledger
    BY <2>1, <2>3, DiskKept DEF ledger, DiskInv
  <2> QED BY <1>5, <2>2, <2>3 DEF PatchImport
<1>6. CASE Crash
  BY <1>6 DEF Crash, DiskInv, ImportedOnDisk
<1>7. ASSUME NEW b \in Blocks, BlockArrives(b) PROVE DiskInv'
  <2>1. /\ files' = [files EXCEPT ![b] = "partial"] /\ writing' = writing \cup {b}
        /\ UNCHANGED <<db, mpc, new_diff, spc, patches, pi>>
    BY <1>7 DEF BlockArrives, ledger, mainv, syncv
  <2> QED BY <1>0, <2>1, DiskKept DEF DiskInv
<1>8. ASSUME NEW b \in Blocks, BlockStored(b) PROVE DiskInv'
  <2>1. /\ files' = [files EXCEPT ![b] = Closed(b, mpc = "import" /\ new_diff = b)]
        /\ b \in writing /\ writing' = writing \ {b}
        /\ UNCHANGED <<db, mpc, new_diff, spc, patches, pi>>
    BY <1>8 DEF BlockStored, ledger, mainv, syncv
  <2>2. files'[b] = "full" \/ (mpc = "import" /\ new_diff = b)
    BY <1>0, <2>1 DEF DiskInv, Closed
  <2>3. \A c \in Blocks : c # b => files'[c] = files[c]
    BY <1>0, <2>1
  <2>4. \A c \in Blocks : OnDisk(c) => OnDisk(c)'
    BY <2>1, <2>2, <2>3
  <2>5. files'[b] # "none"
    BY <1>0, <2>1 DEF DiskInv, Closed
  <2>6. mpc' = "import" => files'[new_diff'] # "none"
    BY <1>0, <2>1, <2>3, <2>5 DEF DiskInv
  <2>7. \A c \in writing' : files'[c] # "none"
    BY <1>0, <2>1, <2>3, <2>5 DEF DiskInv
  <2> QED BY <2>1, <2>4, <2>6, <2>7, DiskKept
<1>9. CASE \/ LoadHead \/ Stage1 \/ (\E t \in Hash : Stage2(t)) \/ MainClearLbi \/ GetTail
           \/ UpdateSyncd \/ Stage3 \/ Stage3InSync
           \/ (\E b \in Blocks : Stage4(b)) \/ Stage4Bound
  <2>1. UNCHANGED <<files, writing, db, spc, patches, pi>> /\ mpc # "import" /\ mpc' # "import"
    BY <1>9 DEF LoadHead, Stage1, Stage2, MainClearLbi, ClearLastBlock, GetTail, UpdateSyncd, Stage3,
                Stage3InSync, Stage4, Stage4Bound, disk, ledger, syncv
  <2> QED BY <2>1, DiskKept DEF DiskInv
<1>10. CASE \/ LoopTop \/ (\E p \in Hash : GetPrev(p)) \/ SetCur \/ QueryDelivered
            \/ QueryUndelivered \/ Reset \/ ResetApps \/ ResetLbi \/ Wait4File
            \/ PatchGetTail \/ PatchUpdate \/ SetTail \/ SyncClearApps \/ SyncClearLbi \/ WaitResume
  <2>1. /\ UNCHANGED <<files, writing, mpc, new_diff>> /\ spc' # "import"
        /\ db' = db \/ db' = <<>>
    BY <1>10 DEF LoopTop, GetPrev, SetCur, QueryDelivered, QueryUndelivered, Reset, ResetApps,
                 ResetLbi, Wait4File, PatchGetTail, PatchUpdate, SetTail, SyncClearApps, SyncClearLbi,
                 WaitResume, ClearApps, ClearLastBlock, disk, ledger, mainv
  <2> QED BY <2>1, DiskKept DEF DiskInv
<1>11. CASE UNCHANGED vars
  <2>1. UNCHANGED <<files, writing, db, mpc, new_diff, spc, patches, pi>>
    BY <1>11 DEF vars, disk, ledger, mainv, syncv
  <2> QED BY <2>1, DiskKept DEF DiskInv
<1> QED
  BY <1>2, <1>3, <1>4, <1>5, <1>6, <1>7, <1>8, <1>9, <1>10, <1>11 DEF Next, Network, Main, Syncd

\* When disk work is fast next to the clock, every block applied to the apps'
\* databases is on disk, complete or about to be, whatever blocks the network
\* delivers, patch_db removes or save() writes at the same time.
THEOREM BlocksOnDisk ==
    ASSUME Timely
    PROVE  Spec => []ImportedOnDisk
<1>1. Init => DiskInv
  BY DEF Init, DiskInv, ImportedOnDisk
<1>2. IInv /\ DiskInv /\ [Next]_vars => DiskInv'
  BY DiskStep
<1>3. DiskInv => ImportedOnDisk
  BY DEF DiskInv
<1> QED BY Inductive, <1>1, <1>2, <1>3, PTL DEF Spec

-----------------------------------------------------------------------------
(***************************************************************************)
(* new_diff is used up before stage4, when disk work is fast (Timely).     *)
(***************************************************************************)

\* The blocks on disk.
Stored == {b \in Blocks : OnDisk(b)}

\* h and the blocks before it, back to a first one, are in D.
Rooted(D, h) ==
    h = Zero \/ \E S \in SUBSET D : h \in S /\ \A c \in S : Prev[c] \in S \cup {Zero}

\* Zero stands for no block: nothing is needed for it.
LEMMA RootedZero == ASSUME NEW D PROVE Rooted(D, Zero)
BY DEF Rooted

\* Blocks that come to D take nothing away.
LEMMA RootedMore ==
    ASSUME NEW D, NEW E, D \subseteq E, NEW h, Rooted(D, h)
    PROVE  Rooted(E, h)
BY DEF Rooted

\* The block that follows.
LEMMA RootedNext ==
    ASSUME NEW D, NEW b \in D, Rooted(D, Prev[b])
    PROVE  Rooted(D, b)
<1>1. CASE Prev[b] = Zero
  <2>1. {b} \in SUBSET D /\ b \in {b} /\ \A c \in {b} : Prev[c] \in {b} \cup {Zero}
    BY <1>1
  <2> QED BY <2>1 DEF Rooted
<1>2. CASE Prev[b] # Zero
  <2>1. PICK S \in SUBSET D : Prev[b] \in S /\ \A c \in S : Prev[c] \in S \cup {Zero}
    BY <1>2 DEF Rooted
  <2> DEFINE T == S \cup {b}
  <2>2. T \in SUBSET D /\ b \in T /\ \A c \in T : Prev[c] \in T \cup {Zero}
    BY <2>1
  <2> QED BY <2>2 DEF Rooted
<1> QED BY <1>1, <1>2

\* The block before.
LEMMA RootedPrev ==
    ASSUME NEW D, NEW b \in Blocks, Rooted(D, b)
    PROVE  b \in D /\ Rooted(D, Prev[b])
<1>1. PICK S \in SUBSET D : b \in S /\ \A c \in S : Prev[c] \in S \cup {Zero}
  BY ZeroAssumption DEF Rooted
<1>2. Prev[b] \in S \/ Prev[b] = Zero
  BY <1>1
<1> QED BY <1>1, <1>2 DEF Rooted

\* When disk work is fast, only a crash takes blocks from the disk.
LEMMA StoredStays ==
    ASSUME Timely, IInv, DiskInv, [Next]_vars, ~Crash
    PROVE  Stored \subseteq Stored'
<1> USE DEF OnDisk, BeingWritten
<1>0. /\ files \in [Blocks -> FileState] /\ writing \subseteq Blocks
      /\ mpc \in {"save", "import"} => new_diff \in Blocks
      /\ spc \in {"patch", "import"} => patches[pi] \in Blocks
  BY DEF IInv, TypeOK, LocalsOK
<1> SUFFICES \A c \in Blocks : OnDisk(c) => OnDisk(c)'
  BY DEF Stored
<1>1. ASSUME UNCHANGED <<files, writing>>, mpc # "import" \/ UNCHANGED <<mpc, new_diff>>
      PROVE  \A c \in Blocks : OnDisk(c) => OnDisk(c)'
  BY <1>1
<1>2. CASE SaveBegin
  <2>1. /\ files' = [files EXCEPT ![new_diff] = "partial"] /\ mpc = "save" /\ mpc' = "import"
        /\ UNCHANGED <<writing, new_diff>> /\ new_diff \in Blocks
    BY <1>0, <1>2 DEF SaveBegin
  <2> QED BY <1>0, <2>1
<1>3. CASE ImportNewDiff
  <2>1. /\ files' = [files EXCEPT ![new_diff] = Closed(new_diff, new_diff \in writing)]
        /\ mpc = "import" /\ UNCHANGED writing /\ new_diff \in Blocks
    BY <1>0, <1>3 DEF ImportNewDiff, SaveEnd
  <2>2. files'[new_diff] = "full" \/ new_diff \in writing
    BY <1>0, <2>1 DEF DiskInv, Closed
  <2>3. \A c \in Blocks : c # new_diff => files'[c] = files[c]
    BY <1>0, <2>1
  <2> QED BY <2>1, <2>2, <2>3
<1>4. CASE PatchRead
  <2>1. UNCHANGED <<writing, mpc, new_diff>> /\ patches[pi] \in Blocks
    BY <1>0, <1>4 DEF PatchRead, mainv
  <2>2. CASE UNCHANGED files
    BY <2>1, <2>2
  <2>3. CASE files[patches[pi]] # "full" /\ files' = [files EXCEPT ![patches[pi]] = "none"]
    <3>1. ~BeingWritten(patches[pi])
      BY <1>4 DEF PatchRead, Readable
    <3> QED BY <1>0, <2>1, <2>3, <3>1
  <2> QED BY <1>4, <2>2, <2>3 DEF PatchRead
<1>5. ASSUME NEW b \in Blocks, BlockArrives(b) PROVE \A c \in Blocks : OnDisk(c) => OnDisk(c)'
  <2>1. /\ files' = [files EXCEPT ![b] = "partial"] /\ writing' = writing \cup {b}
        /\ UNCHANGED <<mpc, new_diff>>
    BY <1>5 DEF BlockArrives, mainv
  <2> QED BY <1>0, <2>1
<1>6. ASSUME NEW b \in Blocks, BlockStored(b) PROVE \A c \in Blocks : OnDisk(c) => OnDisk(c)'
  <2>1. /\ files' = [files EXCEPT ![b] = Closed(b, mpc = "import" /\ new_diff = b)]
        /\ b \in writing /\ writing' = writing \ {b} /\ UNCHANGED <<mpc, new_diff>>
    BY <1>6 DEF BlockStored, mainv
  <2>2. files'[b] = "full" \/ (mpc = "import" /\ new_diff = b)
    BY <1>0, <2>1 DEF DiskInv, Closed
  <2>3. \A c \in Blocks : c # b => files'[c] = files[c]
    BY <1>0, <2>1
  <2> QED BY <2>1, <2>2, <2>3
<1>7. CASE \/ LoadHead \/ Stage1 \/ (\E t \in Hash : Stage2(t)) \/ MainClearLbi \/ GetTail
           \/ UpdateSyncd \/ Stage3 \/ Stage3InSync
           \/ (\E b \in Blocks : Stage4(b)) \/ Stage4Bound
  <2>1. UNCHANGED <<files, writing>> /\ mpc # "import"
    BY <1>7 DEF LoadHead, Stage1, Stage2, MainClearLbi, GetTail, UpdateSyncd, Stage3, Stage3InSync,
                Stage4, Stage4Bound, disk
  <2> QED BY <1>1, <2>1
<1>8. CASE \/ LoopTop \/ (\E p \in Hash : GetPrev(p)) \/ SetCur \/ QueryDelivered
           \/ QueryUndelivered \/ Reset \/ ResetApps \/ ResetLbi \/ Wait4File \/ PatchImport
           \/ PatchGetTail \/ PatchUpdate \/ SetTail \/ SyncClearApps \/ SyncClearLbi \/ WaitResume
  <2>1. UNCHANGED <<files, writing, mpc, new_diff>>
    BY <1>8 DEF LoopTop, GetPrev, SetCur, QueryDelivered, QueryUndelivered, Reset, ResetApps, PatchImport,
                ResetLbi, Wait4File, PatchGetTail, PatchUpdate, SetTail, SyncClearApps, SyncClearLbi,
                WaitResume, disk, mainv
  <2> QED BY <1>1, <2>1
<1>9. CASE UNCHANGED vars
  <2>1. UNCHANGED <<files, writing, mpc, new_diff>>
    BY <1>9 DEF vars, disk, mainv
  <2> QED BY <1>1, <2>1
<1> QED
  BY <1>2, <1>3, <1>4, <1>5, <1>6, <1>7, <1>8, <1>9 DEF Next, Network, Main, Syncd

-----------------------------------------------------------------------------
\* What was imported is on disk with all that it builds on.
KeptInv ==
    /\ Rooted(Stored, lbi) /\ Rooted(Stored, tail) /\ Rooted(Stored, mtail) /\ Rooted(Stored, stail)
    /\ spc \in {"get_tail", "update", "set_tail"} => Rooted(Stored, patches[1])

\* At the start nothing was imported.
LEMMA KeptInit == Init => KeptInv
BY RootedZero DEF Init, KeptInv

\* Every step keeps KeptInv: what is imported is on disk and follows what was.
LEMMA KeptStep ==
    ASSUME Timely, IInv, DiskInv, DiskInv', KeptInv, [Next]_vars
    PROVE  KeptInv'
<1>1. CASE Crash
  BY <1>1, RootedZero DEF Crash, KeptInv
<1>2. CASE ~Crash
  <2> DEFINE D == Stored
             E == Stored'
  <2>0. D \subseteq E
    BY <1>2, StoredStays
  <2>1. \A h : Rooted(D, h) => Rooted(E, h)
    BY <2>0, RootedMore
  <2>2. Rooted(E, Zero)
    BY RootedZero
  <2>3. Rooted(D, lbi) /\ Rooted(D, tail) /\ Rooted(D, mtail) /\ Rooted(D, stail)
        /\ (spc \in {"get_tail", "update", "set_tail"} => Rooted(D, patches[1]))
    BY DEF KeptInv
  <2> HIDE DEF D, E
  <2> SUFFICES /\ Rooted(E, lbi') /\ Rooted(E, tail') /\ Rooted(E, mtail') /\ Rooted(E, stail')
               /\ spc' \in {"get_tail", "update", "set_tail"} => Rooted(E, patches'[1])
    BY DEF KeptInv, E
  <2>5. CASE ImportNewDiff
    <3>1. mpc = "import" /\ new_diff \in Blocks /\ UNCHANGED <<tail, mtail, stail, spc, patches, writing>>
      BY <2>5 DEF ImportNewDiff, IInv, LocalsOK, shared, syncv
    <3>2. CASE Import(new_diff, spc)
      <4>1. files'[new_diff] = "full" \/ new_diff \in writing
        <5>1. files' = [files EXCEPT ![new_diff] = Closed(new_diff, new_diff \in writing)]
          BY <2>5 DEF ImportNewDiff, SaveEnd
        <5> QED BY <3>1, <5>1 DEF DiskInv, Closed, IInv, TypeOK
      <4>2. files'[new_diff] = "full" \/ new_diff \in writing'
        BY <3>1, <4>1
      <4>3. Rooted(E, new_diff)
        <5>1. new_diff \in E
          BY <3>1, <4>2 DEF E, Stored, OnDisk, BeingWritten
        <5>2. Prev[new_diff] = lbi
          BY <3>2 DEF Import, InSequence
        <5> QED BY <2>1, <2>3, <5>1, <5>2, RootedNext
      <4> QED BY <2>1, <2>3, <3>1, <3>2, <4>3 DEF Import, SetLastBlockImported
    <3>3. CASE ClearApps
      BY <2>1, <2>3, <3>1, <3>3 DEF ClearApps
    <3> QED BY <2>5, <3>2, <3>3 DEF ImportNewDiff
  <2>6. CASE PatchImport
    <3>1. /\ spc = "import" /\ patches[pi] \in Blocks /\ OnDisk(patches[pi])
          /\ UNCHANGED <<tail, mtail, stail, patches>>
      BY <2>6 DEF PatchImport, IInv, TypeOK, LocalsOK, shared, mainv, DiskInv
    <3>2. CASE Import(patches[pi], mpc) /\ spc' = IF pi = 1 THEN "get_tail" ELSE "patch"
      <4>1. Rooted(E, patches[pi])
        <5>1. patches[pi] \in E
          BY <2>0, <3>1 DEF D, Stored
        <5>2. Prev[patches[pi]] = lbi
          BY <3>2 DEF Import, InSequence
        <5> QED BY <2>1, <2>3, <5>1, <5>2, RootedNext
      <4> QED BY <2>1, <2>3, <3>1, <3>2, <4>1 DEF Import, SetLastBlockImported
    <3>3. CASE UNCHANGED ledger /\ spc' = "clear"
      BY <2>1, <2>3, <3>1, <3>3 DEF ledger
    <3> QED BY <2>6, <3>2, <3>3 DEF PatchImport
  <2>7. CASE \/ LoadHead \/ Stage1 \/ (\E t \in Hash : Stage2(t)) \/ SaveBegin \/ MainClearLbi \/ GetTail
             \/ UpdateSyncd \/ Stage3 \/ Stage3InSync
             \/ (\E b \in Blocks : Stage4(b)) \/ Stage4Bound
    <3>1. /\ UNCHANGED <<stail, spc, patches>> /\ lbi' \in {lbi, Zero}
          /\ tail' \in {tail, lbi, mtail} /\ mtail' \in {mtail, lbi, Zero}
      BY <2>7 DEF LoadHead, Stage1, Stage2, SaveBegin, MainClearLbi, GetTail, UpdateSyncd, Stage3, Stage3InSync,
                  Stage4, Stage4Bound, ledger, shared, syncv, Update2, ClearLastBlock, SetLastBlockImported
    <3> QED BY <2>1, <2>2, <2>3, <3>1
  <2>8. CASE \/ LoopTop \/ (\E p \in Hash : GetPrev(p)) \/ SetCur \/ QueryDelivered
             \/ QueryUndelivered \/ Reset \/ ResetApps \/ ResetLbi \/ Wait4File \/ PatchRead
             \/ PatchGetTail \/ PatchUpdate \/ SyncClearApps \/ SyncClearLbi \/ WaitResume
    <3>1. /\ UNCHANGED mtail /\ lbi' \in {lbi, Zero}
          /\ tail' \in {tail, stail, Zero} /\ stail' \in {stail, lbi, Zero}
          /\ \/ spc' \notin {"get_tail", "update", "set_tail"}
             \/ spc \in {"get_tail", "update"} /\ UNCHANGED patches
      BY <2>8 DEF LoopTop, GetPrev, SetCur, QueryDelivered, QueryUndelivered, Reset, ResetApps, PatchRead,
                ResetLbi, Wait4File, PatchGetTail, PatchUpdate, Update1, SyncClearApps, SyncClearLbi,
                WaitResume, ClearApps, ClearLastBlock, SetLastBlockImported, ledger, shared, mainv, SyncLocals
    <3> QED BY <2>1, <2>2, <2>3, <3>1
  <2>9. CASE SetTail
    <3>1. UNCHANGED <<mtail, lbi, stail>> /\ tail' = patches[1] /\ spc = "set_tail" /\ spc' = "wait"
      BY <2>9 DEF SetTail, ledger, mainv
    <3> QED BY <2>1, <2>2, <2>3, <3>1
  <2>10. CASE Network \/ UNCHANGED vars
    <3>1. UNCHANGED <<mtail, lbi, stail, tail, spc, patches>>
      BY <2>10 DEF Network, BlockArrives, BlockStored, vars, ledger, mainv, shared, syncv
    <3> QED BY <2>1, <2>2, <2>3, <3>1
  <2> QED
    BY <1>2, <2>5, <2>6, <2>7, <2>8, <2>9, <2>10 DEF Next, Main, Syncd
<1> QED BY <1>1, <1>2

\* h comes before the last block of patches.
Links(h) == patches = <<>> \/ Prev[patches[Len(patches)]] = h

\* The last block of patches is not a first one.
Rootless == patches = <<>> \/ Prev[patches[Len(patches)]] # Zero

\* The walk back from the head: patches ends where it goes on, unless the head
\* was replaced; and it goes on to a block, so what it has when it asks for one
\* cannot be imported on its own into an empty database.
WalkInv ==
    /\ spc \in {"wait", "clear_lbi"} => patches = <<>>
    /\ spc = "set_cur" => prv = Zero \/ Links(prv)
    /\ spc \in {"get_prev", "query"} => Links(cu)
    /\ spc \in {"loop", "get_prev", "query", "wait4file", "reset", "reset_apps", "reset_lbi"} =>
         cur \in {Zero, head} \/ Links(cur)
    /\ spc \in {"reset", "reset_apps", "reset_lbi", "wait4file"} => Rootless

\* At the start nothing has been walked.
LEMMA WalkInit == Init => WalkInv
BY DEF Init, WalkInv

\* The last element of a sequence that was appended to.
LEMMA LastAppended ==
    ASSUME NEW S, NEW s \in Seq(S), NEW e \in S
    PROVE  Append(s, e)[Len(Append(s, e))] = e
BY AppendBlock

\* Every step keeps WalkInv.
LEMMA WalkStep ==
    ASSUME IInv, WalkInv, [Next]_vars
    PROVE  WalkInv'
<1> USE DEF WalkInv, Links, Rootless
<1>0. /\ spc \in SyncPC /\ patches \in Seq(Blocks)
      /\ spc \in {"get_prev", "query"} => cu \in Blocks
  BY DEF IInv, TypeOK, LocalsOK
<1>1. CASE Crash
  BY <1>1 DEF Crash
<1>2. CASE Main \/ Network \/ UNCHANGED vars
  <2>1. UNCHANGED <<spc, patches, cu, prv>> /\ (UNCHANGED <<head, cur>> \/ cur' = head')
    BY <1>2 DEF Main, Network, vars, LoadHead, Stage1, Stage2, SaveBegin, ImportNewDiff, MainClearLbi, GetTail, UpdateSyncd,
                Stage3, Stage3InSync, Stage4, Stage4Bound, BlockArrives, BlockStored, shared, syncv, Update2
  <2> QED BY <2>1
<1>3. CASE LoopTop
  BY <1>3 DEF LoopTop, shared
<1>4. ASSUME NEW p \in Hash, GetPrev(p) PROVE WalkInv'
  <2>1. CASE spc' = "query" /\ UNCHANGED patches
    BY <1>4, <2>1 DEF GetPrev, shared
  <2>2. CASE spc' = "set_cur" /\ prv' = p /\ p \in {Prev[cu], Zero} /\ patches' = Append(patches, cu)
    <3>1. spc = "get_prev"
      BY <1>4 DEF GetPrev
    <3>2. patches'[Len(patches')] = cu
      BY <1>0, <2>2, <3>1, LastAppended
    <3> QED BY <2>2, <3>2
  <2> QED BY <1>4, <2>1, <2>2 DEF GetPrev
<1>5. CASE SetCur
  BY <1>5 DEF SetCur
<1>6. CASE QueryDelivered \/ QueryUndelivered
  <2>1. /\ spc = "query" /\ spc' \in {"reset", "wait4file"} /\ UNCHANGED <<patches, head, cur>>
    BY <1>6 DEF QueryDelivered, QueryUndelivered, shared
  <2>2. Links(cu) /\ cu \in Blocks
    BY <1>0, <2>1
  <2>3. Rootless'
    BY <2>1, <2>2, ZeroAssumption
  <2> QED BY <2>1, <2>2, <2>3
<1>7. CASE Reset \/ ResetApps \/ ResetLbi \/ Wait4File
  BY <1>7 DEF Reset, ResetApps, ResetLbi, Wait4File, shared
<1>8. CASE PatchRead \/ PatchImport \/ PatchGetTail \/ PatchUpdate
  <2>1. spc' \in {"import", "clear", "get_tail", "patch", "update", "set_tail"}
    BY <1>8 DEF PatchRead, PatchImport, PatchGetTail, PatchUpdate
  <2> QED BY <2>1
<1>9. CASE SetTail \/ SyncClearApps \/ SyncClearLbi \/ WaitResume
  BY <1>9 DEF SetTail, SyncClearApps, SyncClearLbi, WaitResume
<1> QED
  BY <1>1, <1>2, <1>3, <1>4, <1>5, <1>6, <1>7, <1>8, <1>9 DEF Next, Syncd

\* syncd waits for the main loop to call update().
Asleep == spc = "wait" /\ ~resume

\* syncd has reset the database: nothing will be imported into it any more.
Gone ==
    /\ head = Zero /\ Rootless
    /\ \/ spc = "reset_apps"
       \/ spc = "reset_lbi" /\ db = <<>>
       \/ /\ spc \in {"wait4file", "loop", "patch", "import", "clear", "clear_lbi", "wait"}
          /\ db = <<>> /\ lbi = Zero
          /\ spc \in {"patch", "import"} => pi = Len(patches)

\* syncd on its way back from the head.
WalkPC == {"loop", "get_prev", "set_cur", "query", "wait4file", "reset"}
\* syncd at the end of a walk, until the next.
PatchPC == {"patch", "import", "get_tail", "update", "set_tail", "clear", "clear_lbi", "wait"}

\* The walk that was on in stage3 is still on, and the node is the node it was.
Walking == spc \in WalkPC /\ IsNode

\* That walk has ended; if there is another, it has somewhere to go.
Exited ==
    \/ /\ spc \in PatchPC \cup {"loop"}
       /\ head = Zero \/ cur \in {head, tail, Zero}
       /\ spc = "set_tail" => cur = head
    \/ spc \in WalkPC /\ head # tail

\* In sync while a walk from an earlier head goes on.
Stale == Walking /\ InSync /\ Rooted(Stored, head)

\* All that syncd can still walk through is on disk.
Home ==
    /\ spc \in PatchPC \cup {"loop", "get_prev", "set_cur"}
    /\ spc \in {"get_prev", "set_cur"} => head # Zero
    /\ Rooted(Stored, head)
    /\ head # Zero => Rooted(Stored, cur)
    /\ spc = "get_prev" => Rooted(Stored, cu)
    /\ spc = "set_cur" => Rooted(Stored, prv)

\* After stage3 found the node in sync, what syncd may be doing until the next update().
Settled == Gone \/ Stale \/ Home \/ Asleep

\* The node is not one of the nodes and will not be before the next update().
Out == Gone \/ (Asleep /\ ~IsNode)

\* Where new_diff is when it is not zero, and what syncd may still do then.
ConsumedInv ==
    /\ mpc \in {"load", "clear_lbi", "get_tail", "update", "in_sync", "stage4"} => new_diff = Zero
    /\ mpc = "in_sync" => Gone \/ Walking \/ Exited \/ Asleep
    /\ mpc = "stage4" \/ (mpc = "stage1" /\ new_diff # Zero) => Settled
    /\ new_diff # Zero /\ (mpc = "stage3" \/ (mpc = "stage2" /\ ~voted)) => Out

\* At the start there is no new_diff.
LEMMA ConsumedInit == Init => ConsumedInv
BY DEF Init, ConsumedInv

\* A database that was reset stays empty.
LEMMA GoneStays ==
    ASSUME IInv, Gone, Syncd
    PROVE  Gone'
<1> USE DEF Gone, Rootless
<1>0. pi \in 0..Len(patches) /\ patches \in Seq(Blocks) /\ (spc \in {"patch", "import"} => pi \in 1..Len(patches))
  BY DEF IInv, TypeOK, LocalsOK
<1>1. CASE LoopTop
  BY <1>0, <1>1 DEF LoopTop, ledger, shared
<1>2. CASE ResetApps \/ ResetLbi \/ Wait4File
  BY <1>2 DEF ResetApps, ResetLbi, Wait4File, ClearApps, ClearLastBlock, SetLastBlockImported, ledger, shared
<1>3. CASE PatchRead
  BY <1>3 DEF PatchRead, ledger, shared, SyncLocals
<1>4. CASE PatchImport
  <2>1. spc = "import" /\ pi = Len(patches) /\ patches # <<>> /\ lbi = Zero
    BY <1>0, <1>4 DEF PatchImport
  <2>2. Prev[patches[pi]] # Zero
    BY <2>1
  <2>3. ~InSequence(patches[pi])
    BY <2>1, <2>2 DEF InSequence
  <2> QED BY <1>4, <2>1, <2>3 DEF PatchImport, Import, ledger, shared
<1>5. CASE SyncClearApps \/ SyncClearLbi \/ WaitResume
  BY <1>5 DEF SyncClearApps, SyncClearLbi, WaitResume, ClearApps, ClearLastBlock, SetLastBlockImported, ledger, shared
<1>6. CASE \/ (\E p \in Hash : GetPrev(p)) \/ SetCur \/ QueryDelivered \/ QueryUndelivered \/ Reset
           \/ PatchGetTail \/ PatchUpdate \/ SetTail
  BY <1>6 DEF GetPrev, SetCur, QueryDelivered, QueryUndelivered, Reset, PatchGetTail, PatchUpdate, SetTail
<1> QED BY <1>1, <1>2, <1>3, <1>4, <1>5, <1>6 DEF Syncd

\* Asleep, syncd does nothing.
LEMMA AsleepStays == Asleep /\ Syncd => FALSE
BY DEF Asleep, Syncd, LoopTop, GetPrev, SetCur, QueryDelivered, QueryUndelivered, Reset, ResetApps, ResetLbi,
       Wait4File, PatchRead, PatchImport, PatchGetTail, PatchUpdate, SetTail, SyncClearApps, SyncClearLbi, WaitResume

\* The steps of a walk change nothing but syncd's own variables and cur, until
\* it ends or the database is reset.
LEMMA WalkSteps ==
    ASSUME IInv, WalkInv, Syncd, spc \in WalkPC
    PROVE  \/ /\ spc' \in WalkPC /\ UNCHANGED <<db, head, tail>>
           \/ /\ spc = "loop" /\ spc' \in {"patch", "wait"} /\ UNCHANGED <<db, head, tail, cur>>
              /\ cur = tail \/ head = Zero \/ cur = Zero
           \/ Gone'
<1>1. CASE LoopTop
  BY <1>1 DEF LoopTop, WalkPC, ledger, shared
<1>2. CASE \/ (\E p \in Hash : GetPrev(p)) \/ SetCur \/ QueryDelivered \/ QueryUndelivered \/ Wait4File
  BY <1>2 DEF GetPrev, SetCur, QueryDelivered, QueryUndelivered, Wait4File, WalkPC, ledger, shared
<1>3. CASE Reset
  BY <1>3 DEF Reset, Gone, WalkInv, Rootless
<1>4. CASE \/ ResetApps \/ ResetLbi \/ PatchRead \/ PatchImport \/ PatchGetTail \/ PatchUpdate \/ SetTail
           \/ SyncClearApps \/ SyncClearLbi \/ WaitResume
  BY <1>4 DEF ResetApps, ResetLbi, PatchRead, PatchImport, PatchGetTail, PatchUpdate, SetTail, SyncClearApps,
              SyncClearLbi, WaitResume, WalkPC
<1> QED BY <1>1, <1>2, <1>3, <1>4 DEF Syncd

\* The database decides whether the node is one of the nodes.
LEMMA NodeStays == UNCHANGED db => IsNode' = IsNode
BY DEF IsNode

\* When a walk that is out of date ends, what follows is on disk.
LEMMA StaleStep ==
    ASSUME IInv, WalkInv, Stale, Syncd, Stored \subseteq Stored'
    PROVE  Stale' \/ Home' \/ Gone'
<1> DEFINE E == Stored'
<1>1. Rooted(E, head) /\ Rooted(E, tail) /\ Rooted(E, Zero) /\ head = tail /\ IsNode /\ spc \in WalkPC
  BY RootedMore, RootedZero DEF Stale, Walking, InSync
<1> HIDE DEF E
<1>2. CASE spc' \in WalkPC /\ UNCHANGED <<db, head, tail>>
  BY <1>1, <1>2, NodeStays DEF Stale, Walking, InSync, E
<1>3. CASE /\ spc = "loop" /\ spc' \in {"patch", "wait"} /\ UNCHANGED <<db, head, tail, cur>>
           /\ cur = tail \/ head = Zero \/ cur = Zero
  <2>1. Rooted(E, head') /\ (head' # Zero => Rooted(E, cur'))
    BY <1>1, <1>3
  <2> QED BY <1>3, <2>1 DEF Home, PatchPC, E
<1> QED BY <1>1, <1>2, <1>3, WalkSteps

\* A walk through blocks that are on disk asks for none.
LEMMA HomeStep ==
    ASSUME Timely, IInv, Home, Syncd, Stored \subseteq Stored'
    PROVE  Home'
<1> DEFINE D == Stored
           E == Stored'
<1>1. \A h : Rooted(D, h) => Rooted(E, h)
  BY RootedMore
<1>2. /\ spc \in PatchPC \cup {"loop", "get_prev", "set_cur"}
      /\ spc \in {"get_prev", "set_cur"} => head # Zero
      /\ Rooted(D, head) /\ (head # Zero => Rooted(D, cur))
      /\ spc = "get_prev" => Rooted(D, cu)
      /\ spc = "set_cur" => Rooted(D, prv)
  BY DEF Home
<1> HIDE DEF D, E
<1> SUFFICES /\ spc' \in PatchPC \cup {"loop", "get_prev", "set_cur"}
             /\ spc' \in {"get_prev", "set_cur"} => head' # Zero
             /\ Rooted(E, head') /\ (head' # Zero => Rooted(E, cur'))
             /\ spc' = "get_prev" => Rooted(E, cu')
             /\ spc' = "set_cur" => Rooted(E, prv')
  BY DEF Home, E
<1> USE DEF PatchPC
<1>3. CASE LoopTop
  BY <1>1, <1>2, <1>3 DEF LoopTop, shared
<1>4. ASSUME NEW p \in Hash, GetPrev(p)
      PROVE  /\ spc' \in PatchPC \cup {"loop", "get_prev", "set_cur"}
             /\ spc' \in {"get_prev", "set_cur"} => head' # Zero
             /\ Rooted(E, head') /\ (head' # Zero => Rooted(E, cur'))
             /\ spc' = "get_prev" => Rooted(E, cu')
             /\ spc' = "set_cur" => Rooted(E, prv')
  <2>1. spc = "get_prev" /\ cu \in Blocks /\ Rooted(D, cu) /\ ~BeingWritten(cu) /\ UNCHANGED <<head, cur>>
    BY <1>2, <1>4 DEF GetPrev, IInv, LocalsOK, Readable, shared
  <2>2. cu \in D /\ Rooted(D, Prev[cu])
    BY <2>1, RootedPrev
  <2>3. files[cu] = "full"
    BY <2>1, <2>2 DEF D, Stored, OnDisk
  <2>4. spc' = "set_cur" /\ prv' = Prev[cu]
    BY <1>4, <2>3 DEF GetPrev
  <2> QED BY <1>1, <1>2, <2>1, <2>2, <2>4
<1>5. CASE SetCur
  BY <1>1, <1>2, <1>5 DEF SetCur
<1>6. CASE PatchRead \/ PatchImport \/ PatchGetTail \/ SyncClearApps \/ SyncClearLbi
  <2>1. spc' \in PatchPC /\ UNCHANGED <<head, cur>>
    BY <1>6 DEF PatchRead, PatchImport, PatchGetTail, SyncClearApps, SyncClearLbi, shared
  <2> QED BY <1>1, <1>2, <2>1
<1>7. CASE PatchUpdate
  BY <1>1, <1>2, <1>7 DEF PatchUpdate, Update1
<1>8. CASE SetTail \/ WaitResume
  <2>1. spc' \in {"wait", "loop"} /\ UNCHANGED <<head, cur>>
    BY <1>8 DEF SetTail, WaitResume
  <2> QED BY <1>1, <1>2, <2>1
<1>9. CASE QueryDelivered \/ QueryUndelivered \/ Reset \/ ResetApps \/ ResetLbi \/ Wait4File
  BY <1>2, <1>9 DEF QueryDelivered, QueryUndelivered, Reset, ResetApps, ResetLbi, Wait4File
<1> QED BY <1>3, <1>4, <1>5, <1>6, <1>7, <1>8, <1>9 DEF Syncd

\* What becomes of a walk that was on in stage3.
LEMMA ExitStep ==
    ASSUME IInv, WalkInv, Walking \/ Exited, Syncd
    PROVE  Walking' \/ Exited' \/ Gone'
<1>1. CASE Walking
  <2>1. spc \in WalkPC /\ IsNode
    BY <1>1 DEF Walking
  <2>2. CASE spc' \in WalkPC /\ UNCHANGED <<db, head, tail>>
    BY <2>1, <2>2, NodeStays DEF Walking
  <2>3. CASE /\ spc = "loop" /\ spc' \in {"patch", "wait"} /\ UNCHANGED <<db, head, tail, cur>>
             /\ cur = tail \/ head = Zero \/ cur = Zero
    BY <2>3 DEF Exited, PatchPC
  <2> QED BY <2>1, <2>2, <2>3, WalkSteps
<1>2. CASE spc \in WalkPC /\ head # tail
  <2>1. CASE spc' \in WalkPC /\ UNCHANGED <<db, head, tail>>
    BY <1>2, <2>1 DEF Exited
  <2>2. CASE /\ spc = "loop" /\ spc' \in {"patch", "wait"} /\ UNCHANGED <<db, head, tail, cur>>
             /\ cur = tail \/ head = Zero \/ cur = Zero
    BY <2>2 DEF Exited, PatchPC
  <2> QED BY <1>2, <2>1, <2>2, WalkSteps
<1>3. CASE /\ spc \in PatchPC \cup {"loop"}
           /\ head = Zero \/ cur \in {head, tail, Zero}
           /\ spc = "set_tail" => cur = head
  <2> USE DEF Exited, PatchPC, WalkPC
  <2>1. CASE LoopTop
    BY <1>3, <2>1 DEF LoopTop, shared
  <2>2. CASE PatchRead \/ PatchImport \/ PatchGetTail \/ SyncClearApps \/ SyncClearLbi
    <3>1. spc' \in {"import", "clear", "patch", "get_tail", "update", "clear_lbi", "wait"} /\ UNCHANGED <<head, cur, tail>>
      BY <2>2 DEF PatchRead, PatchImport, PatchGetTail, SyncClearApps, SyncClearLbi, shared
    <3> QED BY <1>3, <3>1
  <2>3. CASE PatchUpdate \/ SetTail \/ WaitResume
    BY <1>3, <2>3 DEF PatchUpdate, SetTail, WaitResume, Update1
  <2>4. CASE \/ (\E p \in Hash : GetPrev(p)) \/ SetCur \/ QueryDelivered \/ QueryUndelivered \/ Reset
             \/ ResetApps \/ ResetLbi \/ Wait4File
    BY <1>3, <2>4 DEF GetPrev, SetCur, QueryDelivered, QueryUndelivered, Reset, ResetApps, ResetLbi, Wait4File
  <2> QED BY <2>1, <2>2, <2>3, <2>4 DEF Syncd
<1> QED BY <1>1, <1>2, <1>3 DEF Exited

\* syncd asleep has nothing imported in an empty database.
LEMMA OutIsOut ==
    ASSUME Timely, IInv, Out, StageStarts
    PROVE  ~IsNode
BY DEF Out, Gone, IsNode, StageStarts

\* syncd does not undo what the main loop relies on.
LEMMA SyncdConsumes ==
    ASSUME Timely, IInv, WalkInv, ConsumedInv, Syncd, Stored \subseteq Stored'
    PROVE  ConsumedInv'
<1>1. UNCHANGED <<mpc, new_diff, voted>>
  BY DEF Syncd, LoopTop, GetPrev, SetCur, QueryDelivered, QueryUndelivered, Reset, ResetApps, ResetLbi,
         Wait4File, PatchRead, PatchImport, PatchGetTail, PatchUpdate, SetTail, SyncClearApps, SyncClearLbi,
         WaitResume, mainv
<1>2. Gone \/ Walking \/ Exited \/ Asleep => Gone' \/ Walking' \/ Exited'
  BY GoneStays, AsleepStays, ExitStep
<1>3. Settled => Settled'
  BY GoneStays, AsleepStays, StaleStep, HomeStep DEF Settled
<1>4. Out => Out'
  BY GoneStays, AsleepStays DEF Out
<1> QED BY <1>1, <1>2, <1>3, <1>4 DEF ConsumedInv

\* Nor do blocks that arrive.
LEMMA OthersConsume ==
    ASSUME ConsumedInv, Network \/ UNCHANGED vars, Stored \subseteq Stored'
    PROVE  ConsumedInv'
<1>1. UNCHANGED <<mpc, new_diff, voted, db, lbi, head, cur, tail, resume, spc, patches, pi, cu, prv>>
  BY DEF Network, BlockArrives, BlockStored, vars, ledger, shared, mainv, syncv
<1>2. UNCHANGED <<Gone, Walking, Exited, Asleep, Out>>
  BY <1>1 DEF Gone, Walking, Exited, Asleep, Out, IsNode, Rootless
<1>3. \A h : Rooted(Stored, h) => Rooted(Stored', h)
  BY RootedMore
<1>4. Stale => Stale'
  BY <1>1, <1>2, <1>3 DEF Stale, InSync
<1>5. Home => Home'
  <2>1. Rooted(Stored, head) => Rooted(Stored', head)
    BY <1>3
  <2>2. Rooted(Stored, cur) => Rooted(Stored', cur)
    BY <1>3
  <2>3. Rooted(Stored, cu) => Rooted(Stored', cu)
    BY <1>3
  <2>4. Rooted(Stored, prv) => Rooted(Stored', prv)
    BY <1>3
  <2> QED BY <1>1, <2>1, <2>2, <2>3, <2>4 DEF Home
<1> QED BY <1>1, <1>2, <1>4, <1>5 DEF ConsumedInv, Settled

\* The main loop: a node that made a block votes for it, and then new_diff is
\* used up, or it has ceased to be a node for the time being.
LEMMA MainConsumes ==
    ASSUME Timely, IInv, KeptInv, ConsumedInv, Main, Stored \subseteq Stored'
    PROVE  ConsumedInv'
<1>0. new_diff \in Hash /\ voted \in BOOLEAN
  BY DEF IInv, TypeOK
<1>1. CASE LoadHead \/ SaveBegin \/ ImportNewDiff \/ MainClearLbi \/ GetTail \/ UpdateSyncd
  BY <1>1 DEF LoadHead, SaveBegin, ImportNewDiff, MainClearLbi, GetTail, UpdateSyncd, ConsumedInv
<1>2. ASSUME UNCHANGED <<db, lbi, head, cur, tail, resume, spc, patches, pi, cu, prv, files, writing>>
      PROVE  UNCHANGED <<Gone, Walking, Exited, Asleep, Out, InSync, IsNode>>
  BY <1>2 DEF Gone, Walking, Exited, Asleep, Out, IsNode, Rootless, InSync
<1>3. ASSUME UNCHANGED <<db, lbi, head, cur, tail, resume, spc, patches, pi, cu, prv>>, Settled
      PROVE  Settled'
  <2>1. \A h : Rooted(Stored, h) => Rooted(Stored', h)
    BY RootedMore
  <2>2. UNCHANGED <<Gone, Walking, Asleep, InSync>>
    BY <1>3 DEF Gone, Walking, Asleep, IsNode, Rootless, InSync
  <2>3. Stale => Stale'
    BY <1>3, <2>1, <2>2 DEF Stale
  <2>4. Rooted(Stored, head) => Rooted(Stored', head)
    BY <2>1
  <2>5. Rooted(Stored, cur) => Rooted(Stored', cur)
    BY <2>1
  <2>6. Rooted(Stored, cu) => Rooted(Stored', cu)
    BY <2>1
  <2>7. Rooted(Stored, prv) => Rooted(Stored', prv)
    BY <2>1
  <2>8. Home => Home'
    BY <1>3, <2>4, <2>5, <2>6, <2>7 DEF Home
  <2> QED BY <1>3, <2>2, <2>3, <2>8 DEF Settled
<1>4. CASE Stage1
  <2>1. /\ UNCHANGED <<db, lbi, head, cur, tail, resume, spc, patches, pi, cu, prv, files, writing, new_diff>>
        /\ mpc = "stage1" /\ mpc' = "stage2" /\ StageStarts /\ voted' = (voted \/ (new_diff # Zero /\ IsNode))
    BY <1>4 DEF Stage1, disk, ledger, shared, syncv
  <2>2. ASSUME new_diff # Zero, ~voted' PROVE Out'
    <3>1. Settled /\ ~IsNode
      BY <2>1, <2>2 DEF ConsumedInv
    <3>2. Gone \/ Asleep
      BY <2>1, <3>1 DEF Settled, Stale, Walking, Home, PatchPC, StageStarts, Asleep
    <3> QED BY <1>2, <2>1, <3>1, <3>2 DEF Out
  <2> QED BY <2>1, <2>2 DEF ConsumedInv
<1>5. ASSUME NEW t \in Hash, Stage2(t) PROVE ConsumedInv'
  <2>1. /\ UNCHANGED <<db, lbi, head, cur, tail, resume, spc, patches, pi, cu, prv, files, writing>>
        /\ mpc = "stage2" /\ (voted => t # Zero)
        /\ \/ t = Zero /\ mpc' = "stage3" /\ UNCHANGED new_diff
           \/ mpc' = "save"
           \/ mpc' = "get_tail" /\ new_diff' = Zero
    BY <1>5 DEF Stage2, disk, ledger, shared, syncv
  <2>2. CASE t = Zero /\ mpc' = "stage3" /\ UNCHANGED new_diff
    <3>1. new_diff # Zero => Out
      BY <1>0, <2>1, <2>2 DEF ConsumedInv
    <3> QED BY <1>2, <2>1, <2>2, <3>1 DEF ConsumedInv
  <2> QED BY <2>1, <2>2 DEF ConsumedInv
<1>6. CASE Stage3
  <2>1. /\ UNCHANGED <<db, lbi, head, cur, tail, resume, spc, patches, pi, cu, prv, files, writing, new_diff, voted>>
        /\ mpc = "stage3" /\ mpc' = (IF IsNode THEN "in_sync" ELSE "stage1") /\ StageStarts
    BY <1>6 DEF Stage3, disk, ledger, shared, syncv
  <2>2. new_diff # Zero => Out
    BY <2>1 DEF ConsumedInv
  <2>3. CASE IsNode
    <3>1. new_diff = Zero
      BY <2>1, <2>2, <2>3, OutIsOut
    <3>2. Walking \/ Asleep
      BY <2>1, <2>3 DEF StageStarts, Walking, WalkPC, Asleep
    <3> QED BY <1>2, <2>1, <2>3, <3>1, <3>2 DEF ConsumedInv
  <2>4. CASE ~IsNode
    <3>1. new_diff # Zero => Settled'
      BY <1>3, <2>1, <2>2 DEF Out, Settled
    <3> QED BY <2>1, <2>4, <3>1 DEF ConsumedInv
  <2> QED BY <2>3, <2>4
<1>7. CASE Stage3InSync
  <2>1. /\ UNCHANGED <<db, lbi, head, cur, tail, resume, spc, patches, pi, cu, prv, files, writing, new_diff, voted>>
        /\ mpc = "in_sync" /\ mpc' = IF InSync THEN "stage4" ELSE "stage1"
    BY <1>7 DEF Stage3InSync, disk, ledger, shared, syncv
  <2>2. new_diff = Zero /\ (Gone \/ Walking \/ Exited \/ Asleep)
    BY <2>1 DEF ConsumedInv
  <2>3. CASE InSync
    <3>1. head = tail /\ Rooted(Stored, head) /\ Rooted(Stored, Zero)
      BY <2>3, RootedZero DEF InSync, KeptInv
    <3>2. Walking => Stale
      BY <2>3, <3>1 DEF Stale
    <3>3. Exited => Home
      BY <3>1 DEF Exited, Home, PatchPC
    <3>4. Settled'
      BY <1>3, <2>1, <2>2, <3>2, <3>3 DEF Settled
    <3> QED BY <2>1, <2>2, <2>3, <3>4 DEF ConsumedInv
  <2>4. CASE ~InSync
    BY <2>1, <2>2, <2>4 DEF ConsumedInv
  <2> QED BY <2>3, <2>4
<1>8. ASSUME NEW b \in Blocks, Stage4(b) PROVE ConsumedInv'
  <2>1. /\ UNCHANGED <<db, lbi, head, cur, tail, resume, spc, patches, pi, cu, prv>>
        /\ mpc = "stage4" /\ mpc' = "stage1"
    BY <1>8 DEF Stage4, ledger, shared, syncv
  <2> QED BY <1>3, <2>1 DEF ConsumedInv
<1>9. CASE Stage4Bound
  BY <1>9 DEF Stage4Bound, ConsumedInv
<1> QED BY <1>1, <1>4, <1>5, <1>6, <1>7, <1>8, <1>9 DEF Main

\* When disk work is fast next to the clock, stage4 finds that the block of the
\* previous cycle was voted on, imported or dropped: assert(cycle.new_diff==0)
\* holds for any tree of blocks, whenever the node gains or loses its place
\* among the nodes, and whatever walks syncd is in the middle of.
THEOREM NewDiffIsConsumed ==
    ASSUME Timely
    PROVE  Spec => []NewDiffConsumed
<1> DEFINE Inv == IInv /\ DiskInv /\ KeptInv /\ WalkInv /\ ConsumedInv
<1>1. Init => Inv
  <2>1. Init => DiskInv
    BY DEF Init, DiskInv, ImportedOnDisk
  <2> QED BY <2>1, InitIInv, KeptInit, WalkInit, ConsumedInit
<1>2. IInv /\ IInv' /\ DiskInv /\ KeptInv /\ WalkInv /\ ConsumedInv /\ [Next]_vars => Inv'
  <2> SUFFICES ASSUME IInv, IInv', DiskInv, KeptInv, WalkInv, ConsumedInv, [Next]_vars PROVE Inv'
    OBVIOUS
  <2>1. DiskInv' /\ KeptInv' /\ WalkInv'
    BY DiskStep, KeptStep, WalkStep
  <2>2. ConsumedInv'
    <3>1. CASE Crash
      BY <3>1 DEF Crash, ConsumedInv
    <3>2. CASE ~Crash
      <4>1. Stored \subseteq Stored'
        BY <3>2, StoredStays
      <4> QED BY <3>2, <4>1, SyncdConsumes, OthersConsume, MainConsumes DEF Next
    <3> QED BY <3>1, <3>2
  <2> QED BY <2>1, <2>2
<1>3. Inv => NewDiffConsumed
  BY DEF ConsumedInv, NewDiffConsumed
<1> QED BY Inductive, <1>1, <1>2, <1>3, PTL DEF Spec
=============================================================================
