------------------------- MODULE DepositWatch_proofs -------------------------
(***************************************************************************)
(* Proofs about DepositWatch: for every set of outpoints, every depth and  *)
(* any chain, with torn answers, failed polls, reorgs and restarts.        *)
(***************************************************************************)
EXTENDS DepositWatch, TLAPS

LP == INSTANCE DepositLedger_proofs
        WITH Facts <- Scores, Daa <- Scores, NoDaa <- NoFacts

LEMMA NoFactsApart == NoFacts \notin Scores
BY BoundsAssumption DEF Scores

(* The two instances of the ledger are the same.                           *)
LEMMA SameLedger ==
    /\ \A d, observed, confirmed, disappeared :
          Ledger!Reconcile(d, observed, confirmed, disappeared)
            <=> LP!Reconcile(d, observed, confirmed, disappeared)
    /\ \A op : Ledger!ImportLegacyCredit(op) <=> LP!ImportLegacyCredit(op)
    /\ Ledger!TypeOK <=> LP!TypeOK
    /\ Ledger!Init <=> LP!Init
    /\ Ledger!Batch = LP!Batch
<1>1. ASSUME NEW d, NEW observed, NEW confirmed, NEW disappeared
      PROVE  Ledger!Reconcile(d, observed, confirmed, disappeared)
               <=> LP!Reconcile(d, observed, confirmed, disappeared)
  BY DEF Ledger!Reconcile, LP!Reconcile, Ledger!Observe, LP!Observe,
         Ledger!Confirm, LP!Confirm, Ledger!Disappear, LP!Disappear,
         Ledger!ObservedFactsAgree, LP!ObservedFactsAgree,
         Ledger!ConfirmedFactsAgree, LP!ConfirmedFactsAgree,
         Ledger!InsertOutbox, LP!InsertOutbox
<1>2. ASSUME NEW op
      PROVE  Ledger!ImportLegacyCredit(op) <=> LP!ImportLegacyCredit(op)
  BY DEF Ledger!ImportLegacyCredit, LP!ImportLegacyCredit
<1>3. Ledger!TypeOK <=> LP!TypeOK
  BY DEF Ledger!TypeOK, LP!TypeOK, Ledger!Row, LP!Row, Ledger!States, LP!States,
         Ledger!Reasons, LP!Reasons, Ledger!Event, LP!Event
<1>4. Ledger!Init <=> LP!Init
  BY DEF Ledger!Init, LP!Init, Ledger!NoRow, LP!NoRow
<1>5. Ledger!Batch = LP!Batch
  BY DEF Ledger!Batch, LP!Batch
<1>6. QED  BY <1>1, <1>2, <1>3, <1>4, <1>5

-----------------------------------------------------------------------------
(* A partial function of scores.                                           *)
LEMMA PartialFunction ==
    ASSUME NEW T, NEW f \in UNION {[S -> Scores] : S \in SUBSET T}
    PROVE  /\ DOMAIN f \subseteq T
           /\ \A x \in DOMAIN f : f[x] \in Scores
<1>1. PICK S \in SUBSET T : f \in [S -> Scores]
  OBVIOUS
<1>2. QED  BY <1>1

LEMMA MakePartial ==
    ASSUME NEW T, NEW S \in SUBSET T, NEW f \in [S -> Scores]
    PROVE  f \in UNION {[D -> Scores] : D \in SUBSET T}
OBVIOUS

(* What the process remembers, the ledger has a row for.                   *)
MemoryKnown == \A op \in seen \cup credited : deposits[op].state # "absent"

WInv ==
    /\ TypeOK
    /\ LP!IInv
    /\ WatchAgreement
    /\ MemoryKnown
    /\ DepthRespected

LEMMA WInvInit == Init => WInv
<1> SUFFICES ASSUME Init PROVE WInv
  OBVIOUS
<1>1. LP!IInv
  BY SameLedger, LP!InitInv, NoFactsApart DEF Init
<1>2. ChainTypeOK
  BY ChainAssumption DEF Init, ChainInit, ChainTypeOK, Utxos, NoUtxos, Scores
<1>3. TypeOK
  <2>1. tracker \in [{} -> Scores]
    BY DEF Init, NoUtxos
  <2>2. LP!TypeOK
    BY <1>1 DEF LP!IInv
  <2>3. QED
    BY <1>2, <2>1, <2>2, SameLedger, BoundsAssumption DEF Init, TypeOK
<1>4. \A op \in Outpoints : deposits[op].state = "absent"
  BY DEF Init, Ledger!Init, Ledger!NoRow
<1>5. QED
  BY <1>1, <1>3, <1>4 DEF Init, WInv, WatchAgreement, MemoryKnown, DepthRespected

-----------------------------------------------------------------------------
(* The chain keeps its types.                                              *)
LEMMA ChainTyped == ChainTypeOK /\ ChainNext => ChainTypeOK'
<1> SUFFICES ASSUME ChainTypeOK, ChainNext PROVE ChainTypeOK'
  OBVIOUS
<1>1. /\ DOMAIN utxo \subseteq Outpoints
      /\ \A o \in DOMAIN utxo : utxo[o] \in Scores
  BY PartialFunction DEF ChainTypeOK, Utxos
<1>2. /\ daa' \in Scores /\ utxo' \in Utxos
      /\ gone' \subseteq Outpoints /\ moved' \subseteq Outpoints
  <2>1. CASE AdvanceDaa
    BY <2>1, ChainAssumption DEF AdvanceDaa, ChainTypeOK, Scores
  <2>2. ASSUME NEW op \in Outpoints, NEW score \in Scores, Put(op, score)
        PROVE  utxo' \in Utxos
    <3>1. utxo' \in [DOMAIN utxo \cup {op} -> Scores]
      BY <1>1, <2>2 DEF Put
    <3>2. QED  BY <1>1, <3>1, MakePartial DEF Utxos
  <2>3. ASSUME NEW op \in Outpoints, Remove(op)
        PROVE  utxo' \in Utxos
    <3>1. utxo' \in [DOMAIN utxo \ {op} -> Scores]
      BY <1>1, <2>3 DEF Remove
    <3>2. QED  BY <1>1, <3>1, MakePartial DEF Utxos
  <2>4. ASSUME NEW op \in Outpoints, Accept(op) \/ Spend(op) \/ Reorg(op)
        PROVE  /\ daa' \in Scores /\ utxo' \in Utxos
               /\ gone' \subseteq Outpoints /\ moved' \subseteq Outpoints
    BY <2>2, <2>3, <2>4 DEF Accept, Spend, Reorg, ChainTypeOK
  <2>5. QED  BY <2>1, <2>4 DEF ChainNext
<1>3. buried' \subseteq Outpoints \X Scores
  <2>1. Bury
    BY DEF ChainNext, AdvanceDaa, Accept, Spend, Reorg
  <2>2. /\ DOMAIN utxo' \subseteq Outpoints
        /\ \A o \in DOMAIN utxo' : utxo'[o] \in Scores
    BY <1>2, PartialFunction DEF Utxos
  <2>3. QED  BY <2>1, <2>2 DEF Bury, ChainTypeOK
<1>4. QED  BY <1>2, <1>3 DEF ChainTypeOK

-----------------------------------------------------------------------------
(* A step that leaves the ledger alone keeps what is said of it.           *)
LEMMA LedgerFrame ==
    ASSUME WInv, UNCHANGED ledger
    PROVE  LP!IInv' /\ Ledger!TypeOK' /\ DepthRespected'
<1>1. UNCHANGED <<deposits, legacy, outbox>>
  BY DEF ledger
<1>2. LP!IInv'
  BY <1>1 DEF WInv, LP!IInv, LP!TypeOK, LP!RowsWellFormed, LP!OutboxMirrorsLedger,
              LP!Emitted
<1>3. Ledger!TypeOK'
  BY <1>1 DEF WInv, TypeOK, Ledger!TypeOK
<1>4. DepthRespected'
  BY <1>1 DEF WInv, DepthRespected
<1>5. QED  BY <1>2, <1>3, <1>4

(* A restart, whether after a crash or after a refused batch.              *)
LEMMA ForgetInv ==
    ASSUME WInv, Forget, UNCHANGED ledger, UNCHANGED chain,
           pc' \in {"start", "poll"}, faults' \in 0 .. MaxFaults,
           fetched_daa' = NoFacts, fetched_utxos' = NoFacts
    PROVE  WInv'
<1>1. LP!IInv' /\ Ledger!TypeOK' /\ DepthRespected'
  BY LedgerFrame
<1>2. tracker' \in [{} -> Scores] /\ seen' = {} /\ credited' = {}
  BY DEF Forget, NoUtxos
<1>3. TypeOK'
  BY <1>1, <1>2 DEF WInv, TypeOK, chain, ChainTypeOK
<1>4. QED
  BY <1>1, <1>2, <1>3 DEF WInv, WatchAgreement, MemoryKnown

-----------------------------------------------------------------------------
(* What Tick computes from the answers and its memory.                     *)
Fresh == DOMAIN fetched_utxos \ seen
NowTracked == Tracked(Fresh)
NowDue == Due(NowTracked)
Confirmed ==
    [op \in (NowDue \cup {o \in Fresh : Deep(fetched_utxos[o])}) \ credited |->
        IF op \in NowDue THEN NowTracked[op] ELSE fetched_utxos[op]]

Reconciled ==
    /\ Ledger!Reconcile(fetched_daa, fetched_utxos, Confirmed, Vanished)
    /\ seen' = DOMAIN fetched_utxos
    /\ tracker' = Only(NowTracked, DOMAIN NowTracked \ NowDue)
    /\ credited' = credited \cup DOMAIN Confirmed
    /\ UNCHANGED pc

(* A poll is reconciled, or refused by the ledger.                         *)
LEMMA TickCases ==
    ASSUME Tick
    PROVE  /\ fetched_daa # NoFacts /\ fetched_utxos # NoFacts
           /\ fetched_daa' = NoFacts /\ fetched_utxos' = NoFacts
           /\ UNCHANGED <<chain, faults>>
           /\ Reconciled \/ (pc' = "start" /\ Forget /\ UNCHANGED ledger)
BY DEF Tick, NoScan, Reconciled, Confirmed, NowDue, NowTracked, Fresh

(* The arguments of reconcile, with their types.                           *)
LEMMA TickArguments ==
    ASSUME WInv, fetched_daa # NoFacts, fetched_utxos # NoFacts
    PROVE  /\ fetched_daa \in Scores
           /\ fetched_utxos \in LP!Batch /\ DOMAIN fetched_utxos \subseteq Outpoints
           /\ \A o \in DOMAIN fetched_utxos : fetched_utxos[o] \in Scores
           /\ Vanished \in SUBSET Outpoints
           /\ DOMAIN NowTracked = (DOMAIN tracker \ Vanished)
                                     \cup {o \in Fresh : ~Deep(fetched_utxos[o])}
           /\ DOMAIN NowTracked \subseteq DOMAIN fetched_utxos
           /\ \A op \in DOMAIN NowTracked :
                 /\ NowTracked[op] = IF op \in Fresh THEN fetched_utxos[op] ELSE tracker[op]
                 /\ NowTracked[op] \in Scores
           /\ Confirmed \in LP!Batch
<1>1. /\ fetched_daa \in Scores /\ fetched_utxos \in Utxos
      /\ DOMAIN tracker \subseteq seen /\ seen \subseteq Outpoints
      /\ \A o \in DOMAIN tracker : tracker[o] \in Scores
  BY PartialFunction DEF WInv, TypeOK
<1>2. /\ fetched_utxos \in LP!Batch /\ DOMAIN fetched_utxos \subseteq Outpoints
      /\ \A o \in DOMAIN fetched_utxos : fetched_utxos[o] \in Scores
  BY <1>1, PartialFunction DEF Utxos, LP!Batch
<1>3. /\ DOMAIN NowTracked = (DOMAIN tracker \ Vanished)
                                \cup {o \in Fresh : ~Deep(fetched_utxos[o])}
      /\ DOMAIN NowTracked \subseteq DOMAIN fetched_utxos
      /\ \A op \in DOMAIN NowTracked :
            /\ NowTracked[op] = IF op \in Fresh THEN fetched_utxos[op] ELSE tracker[op]
            /\ NowTracked[op] \in Scores
  BY <1>1, <1>2 DEF NowTracked, Tracked, Fresh, Vanished
<1>4. Confirmed \in LP!Batch
  <2>1. NowDue \subseteq DOMAIN NowTracked
    BY DEF NowDue, Due
  <2>2. DEFINE S == (NowDue \cup {o \in Fresh : Deep(fetched_utxos[o])}) \ credited
  <2>3. S \subseteq Outpoints
    BY <1>2, <1>3, <2>1 DEF Fresh
  <2>4. Confirmed \in [S -> Scores]
    BY <1>2, <1>3, <2>1 DEF Confirmed, Fresh
  <2> HIDE DEF S
  <2>5. QED  BY <2>3, <2>4 DEF LP!Batch
<1>5. QED  BY <1>1, <1>2, <1>3, <1>4 DEF Vanished

(* A poll that is reconciled: what the watch confirms is deep, and what    *)
(* stays pending it goes on tracking with the facts of the row.            *)
LEMMA TickReconciled ==
    ASSUME WInv, fetched_daa # NoFacts, fetched_utxos # NoFacts, Reconciled
    PROVE  /\ LP!IInv'
           /\ seen' \subseteq Outpoints /\ credited' \subseteq Outpoints
           /\ tracker' \in UNION {[S -> Scores] : S \in SUBSET seen'}
           /\ WatchAgreement' /\ MemoryKnown' /\ DepthRespected'
<1> DEFINE confirmed == Confirmed
           tracked   == NowTracked
           due       == NowDue
           fresh     == Fresh
<1>0. /\ fresh = DOMAIN fetched_utxos \ seen
      /\ due = Due(tracked)
      /\ DOMAIN confirmed = (due \cup {op \in fresh : Deep(fetched_utxos[op])}) \ credited
      /\ \A op \in DOMAIN confirmed :
            confirmed[op] = IF op \in due THEN tracked[op] ELSE fetched_utxos[op]
      /\ LP!Reconcile(fetched_daa, fetched_utxos, confirmed, Vanished)
      /\ seen' = DOMAIN fetched_utxos
      /\ tracker' = Only(tracked, DOMAIN tracked \ due)
      /\ credited' = credited \cup DOMAIN confirmed
  BY SameLedger DEF Reconciled, Confirmed, NowDue, Fresh
<1>1. /\ fetched_daa \in Scores
      /\ fetched_utxos \in LP!Batch /\ DOMAIN fetched_utxos \subseteq Outpoints
      /\ \A o \in DOMAIN fetched_utxos : fetched_utxos[o] \in Scores
      /\ Vanished \in SUBSET Outpoints
      /\ DOMAIN tracked = (DOMAIN tracker \ Vanished)
                             \cup {o \in fresh : ~Deep(fetched_utxos[o])}
      /\ DOMAIN tracked \subseteq DOMAIN fetched_utxos
      /\ \A op \in DOMAIN tracked :
            /\ tracked[op] = IF op \in fresh THEN fetched_utxos[op] ELSE tracker[op]
            /\ tracked[op] \in Scores
      /\ confirmed \in LP!Batch
  BY TickArguments
<1> HIDE DEF confirmed, tracked, due, fresh
<1>2. /\ credited \subseteq Outpoints
      /\ DOMAIN confirmed \subseteq Outpoints
  BY <1>1, PartialFunction DEF WInv, TypeOK, LP!Batch
<1>3. LP!IInv'
  BY <1>0, <1>1, <1>2, LP!ReconcileInv, NoFactsApart DEF WInv
<1>4. tracker' \in UNION {[S -> Scores] : S \in SUBSET seen'}
  <2>1. tracker' \in [DOMAIN tracked \ due -> Scores]
    BY <1>0, <1>1 DEF Only
  <2>2. DOMAIN tracked \ due \in SUBSET seen'
    BY <1>0, <1>1
  <2>3. QED  BY <1>0, <2>1, <2>2, MakePartial
<1>5. LP!Effect(fetched_daa, fetched_utxos, confirmed, Vanished)
  BY <1>0, <1>1, LP!ReconcileEffect, NoFactsApart DEF WInv
<1>6. WatchAgreement'
  <2> SUFFICES ASSUME NEW op \in Outpoints, deposits'[op].state = "pending"
               PROVE  /\ op \in seen' => op \in DOMAIN tracker' /\ tracker'[op] = deposits'[op].facts
                      /\ op \notin credited'
    BY DEF WatchAgreement
  <2>1. op \notin DOMAIN confirmed /\ op \notin Vanished
    BY <1>0, <1>5 DEF LP!Effect
  <2>2. op \notin credited
    BY <1>0, <1>5 DEF WInv, WatchAgreement, MemoryKnown, LP!Effect
  <2>3. ASSUME op \in seen'
        PROVE  op \in DOMAIN tracked \ due /\ tracked[op] = deposits'[op].facts
    <3>1. CASE op \in seen
      <4>1. deposits[op].state = "pending"
        BY <1>0, <1>1, <1>5, <3>1 DEF WInv, MemoryKnown, LP!Effect
      <4>2. op \in DOMAIN tracker /\ tracker[op] = deposits[op].facts
        BY <1>0, <1>1, <3>1, <4>1 DEF WInv, WatchAgreement
      <4>3. op \in DOMAIN tracked /\ op \notin fresh
        BY <1>0, <1>1, <2>1, <3>1, <4>2
      <4>4. QED  BY <1>0, <1>1, <1>5, <2>1, <2>2, <4>1, <4>2, <4>3 DEF LP!Effect
    <3>2. CASE op \notin seen
      <4>1. op \in fresh
        BY <1>0, <1>1, <2>3, <3>2
      <4>2. op \in DOMAIN tracked
        BY <1>0, <1>1, <2>1, <2>2, <4>1
      <4>3. QED  BY <1>0, <1>1, <1>5, <2>1, <2>2, <2>3, <4>1, <4>2 DEF LP!Effect
    <3>3. QED  BY <1>0, <1>1, <3>1, <3>2
  <2>4. QED  BY <1>0, <2>1, <2>2, <2>3 DEF Only
<1>7. MemoryKnown'
  BY <1>0, <1>1, <1>2, <1>5 DEF MemoryKnown, WInv, LP!Effect
<1>8. DepthRespected'
  <2> SUFFICES ASSUME NEW op \in Outpoints,
                      deposits'[op].state = "credited", op \notin legacy'
               PROVE  deposits'[op].credited_daa >= deposits'[op].facts + Required
    BY DEF DepthRespected
  <2>1. CASE deposits[op].state = "credited"
    BY <1>0, <1>5, <2>1 DEF WInv, DepthRespected, LP!Effect
  <2>2. CASE deposits[op].state # "credited"
    <3>1. /\ op \in DOMAIN confirmed
          /\ deposits'[op].credited_daa = fetched_daa
          /\ deposits'[op].facts = confirmed[op]
      BY <1>0, <1>5, <2>2 DEF LP!Effect
    <3>2. confirmed[op] \in Scores /\ confirmed[op] + Required <= fetched_daa
      <4>1. CASE op \in due
        BY <1>0, <1>1, <3>1, <4>1 DEF Due
      <4>2. CASE op \notin due
        BY <1>0, <1>1, <3>1, <4>2 DEF Deep
      <4>3. QED  BY <1>0, <4>1, <4>2
    <3>3. QED  BY <1>0, <3>1, <3>2, ChainAssumption DEF Scores
  <2>3. QED  BY <1>0, <2>1, <2>2
<1>9. QED
  BY <1>0, <1>1, <1>2, <1>3, <1>4, <1>6, <1>7, <1>8

LEMMA TickInv == WInv /\ Tick => WInv'
<1> SUFFICES ASSUME WInv, Tick PROVE WInv'
  OBVIOUS
<1>1. /\ fetched_daa # NoFacts /\ fetched_utxos # NoFacts
      /\ fetched_daa' = NoFacts /\ fetched_utxos' = NoFacts
      /\ UNCHANGED <<chain, faults>>
      /\ Reconciled \/ (pc' = "start" /\ Forget /\ UNCHANGED ledger)
  BY TickCases
<1>2. CASE Reconciled
  <2>1. /\ LP!IInv'
        /\ seen' \subseteq Outpoints /\ credited' \subseteq Outpoints
        /\ tracker' \in UNION {[S -> Scores] : S \in SUBSET seen'}
        /\ WatchAgreement' /\ MemoryKnown' /\ DepthRespected'
    BY <1>1, <1>2, TickReconciled
  <2>2. Ledger!TypeOK'
    BY <2>1 DEF LP!IInv, LP!TypeOK, Ledger!TypeOK, Ledger!Row, LP!Row, Ledger!States,
                LP!States, Ledger!Reasons, LP!Reasons, Ledger!Event, LP!Event
  <2>3. TypeOK'
    BY <1>1, <1>2, <2>1, <2>2 DEF Reconciled, WInv, TypeOK, chain, ChainTypeOK
  <2>4. QED  BY <2>1, <2>3 DEF WInv
<1>3. CASE pc' = "start" /\ Forget /\ UNCHANGED ledger
  BY <1>1, <1>3, ForgetInv DEF WInv, TypeOK
<1>4. QED  BY <1>1, <1>2, <1>3

LEMMA WInvNext == WInv /\ [Next]_vars => WInv'
<1> SUFFICES ASSUME WInv, [Next]_vars PROVE WInv'
  OBVIOUS
<1>1. ASSUME UNCHANGED <<watch, ledger>>, TypeOK' PROVE WInv'
  BY <1>1, LedgerFrame DEF WInv, watch, ledger, WatchAgreement, MemoryKnown
<1>2. ASSUME UNCHANGED <<watch, ledger>>, ChainTypeOK', pc' \in {"start", "poll"},
             fetched_daa' \in Scores \cup {NoFacts},
             fetched_utxos' \in Utxos \cup {NoFacts}, faults' \in 0 .. MaxFaults
      PROVE  WInv'
  BY <1>1, <1>2, LedgerFrame DEF WInv, TypeOK, watch, ledger
<1>3. CASE ChainMoves
  <2>1. UNCHANGED <<pc, fetched_daa, fetched_utxos, watch, ledger, faults>>
    BY <1>3 DEF ChainMoves, scan
  <2>2. ChainTypeOK'
    BY <1>3, ChainTyped DEF ChainMoves, WInv, TypeOK
  <2>3. QED  BY <1>2, <2>1, <2>2 DEF WInv, TypeOK
<1>4. ASSUME NEW op \in Outpoints, Import(op) PROVE WInv'
  <2>1. LP!IInv'
    BY <1>4, SameLedger, LP!ImportInv, NoFactsApart DEF Import, WInv
  <2>2. /\ UNCHANGED <<chain, pc, fetched_daa, fetched_utxos, watch, faults>>
        /\ legacy' = legacy \cup {op} /\ deposits' = deposits /\ outbox' = outbox
    BY <1>4 DEF Import, Ledger!ImportLegacyCredit, scan
  <2>3. TypeOK'
    BY <2>2 DEF WInv, TypeOK, Ledger!TypeOK, watch, chain, ChainTypeOK
  <2>4. WatchAgreement' /\ MemoryKnown' /\ DepthRespected'
    BY <2>2 DEF WInv, WatchAgreement, MemoryKnown, DepthRespected, watch
  <2>5. QED  BY <2>1, <2>3, <2>4 DEF WInv
<1>5. CASE Start
  BY <1>2, <1>5 DEF Start, WInv, TypeOK, chain, scan, ChainTypeOK
<1>6. CASE FetchDaa
  BY <1>2, <1>6 DEF FetchDaa, WInv, TypeOK, chain, ChainTypeOK
<1>7. CASE FetchUtxos
  BY <1>2, <1>7 DEF FetchUtxos, WInv, TypeOK, chain, ChainTypeOK
<1>8. CASE Tick
  BY <1>8, TickInv
<1>9. CASE PollFails
  BY <1>2, <1>9, BoundsAssumption
     DEF PollFails, Fault, NoScan, WInv, TypeOK, chain, ChainTypeOK
<1>10. CASE Crash
  <2>1. /\ Forget /\ UNCHANGED ledger /\ UNCHANGED chain /\ pc' = "start"
        /\ fetched_daa' = NoFacts /\ fetched_utxos' = NoFacts
    BY <1>10 DEF Crash, NoScan
  <2>2. faults' \in 0 .. MaxFaults
    BY <1>10, BoundsAssumption DEF Crash, Fault, WInv, TypeOK
  <2>3. QED  BY <2>1, <2>2, ForgetInv
<1>11. CASE UNCHANGED vars
  BY <1>2, <1>11 DEF vars, WInv, TypeOK, chain, scan, ChainTypeOK
<1>12. QED
  BY <1>3, <1>4, <1>5, <1>6, <1>7, <1>8, <1>9, <1>10, <1>11 DEF Next

-----------------------------------------------------------------------------
(* The inductive invariant holds in every reachable state.                 *)
THEOREM WatchInvariant == Spec => []WInv
BY WInvInit, WInvNext, PTL DEF Spec

(* What the watch remembers in three places agrees with the ledger: a      *)
(* pending deposit it has seen is still tracked, with the facts of the     *)
(* row, and none that it counts as credited is pending.                    *)
THEOREM Agreement == Spec => []Consistent
<1>1. WInv => Consistent
  BY DEF WInv, Consistent
<1>2. QED  BY <1>1, WatchInvariant, PTL

(* No poll, whichever answers it combined, credits a deposit less than     *)
(* Required deep.                                                          *)
THEOREM CreditedDeep == Spec => []DepthRespected
<1>1. WInv => DepthRespected
  BY DEF WInv
<1>2. QED  BY <1>1, WatchInvariant, PTL

-----------------------------------------------------------------------------
(* The process touches the ledger only by ledger transactions.             *)
LEMMA LedgerStep == WInv /\ [Next]_vars => [LP!Next]_(LP!vars)
<1> SUFFICES ASSUME WInv, [Next]_vars PROVE [LP!Next]_(LP!vars)
  OBVIOUS
<1>1. CASE UNCHANGED ledger
  BY <1>1 DEF ledger, LP!vars
<1>2. ASSUME NEW op \in Outpoints, Import(op) PROVE LP!Next
  BY <1>2, SameLedger DEF Import, LP!Next
<1>3. CASE Tick
  <2>1. CASE Reconciled
    BY <1>3, <2>1, TickCases, TickArguments, SameLedger DEF Reconciled, LP!Next
  <2>2. QED  BY <1>1, <1>3, <2>1, TickCases
<1>4. CASE ChainMoves \/ Start \/ FetchDaa \/ FetchUtxos \/ PollFails \/ Crash
           \/ UNCHANGED vars
  BY <1>1, <1>4 DEF ChainMoves, Start, FetchDaa, FetchUtxos, PollFails, Crash, vars
<1>5. QED  BY <1>2, <1>3, <1>4 DEF Next

LEMMA LedgerSame == Ledger!Spec <=> LP!Spec
<1>1. Ledger!Init <=> LP!Init
  BY SameLedger
<1>2. \A op : Ledger!ReverseCreditedOnReorg(op) <=> LP!ReverseCreditedOnReorg(op)
  BY DEF Ledger!ReverseCreditedOnReorg, LP!ReverseCreditedOnReorg, Ledger!InsertOutbox,
         LP!InsertOutbox
<1>3. [Ledger!Next]_(Ledger!vars) <=> [LP!Next]_(LP!vars)
  BY <1>2, SameLedger DEF Ledger!Next, LP!Next, Ledger!vars, LP!vars
<1>4. QED  BY <1>1, <1>3, PTL DEF Ledger!Spec, LP!Spec

(* REST polling implements the deposit ledger: whatever answers it         *)
(* combines and wherever it is restarted, the tables see only the ledger's *)
(* own transactions, with arguments of their types.                        *)
THEOREM LedgerImplemented == Spec => Ledger!Spec
<1>1. Init => LP!Init
  BY SameLedger DEF Init
<1>2. QED  BY <1>1, LedgerStep, LedgerSame, WatchInvariant, PTL DEF Spec, LP!Spec

(* So all that is proved of the ledger holds of it under REST polling: the *)
(* outbox mirrors the table, the consumer's contract is kept, and a legacy *)
(* credit is never announced again.                                        *)
THEOREM LedgerGuarantees ==
    Spec => /\ []LP!OutboxMirrorsLedger
            /\ LP!ImplementsCreditLifecycle
            /\ LP!LegacyNeverPaidAgain
BY LedgerImplemented, LedgerSame, LP!OutboxFaithful, LP!Refinement, LP!LegacySafe,
   NoFactsApart, PTL
=============================================================================
