---------------------------- MODULE WithdrawalPoll ----------------------------
(***************************************************************************)
(* tn10-withdraw: processes that poll one withdrawal over REST             *)
(* (poll_durable_withdrawal of src/watch.rs) into the same withdrawal      *)
(* ledger, while the chain accepts, reorganises and spends.  A poll asks   *)
(* for the DAA score, the destination's UTXOs and the transaction at once; *)
(* the three answers are of three moments, and the ledger is written in up *)
(* to two transactions.  poll_withdrawal, which keeps nothing, decides     *)
(* from the first two answers alone.                                       *)
(***************************************************************************)
EXTENDS WithdrawalLedger

CONSTANTS
    Pollers,
    Withdrawal,         \* the one all of them follow
    Agreed, Required,   \* its terms and confirmations
    MaxReorgs,          \* bound: how often the transaction is dropped
    MaxFaults           \* bound: pollers killed and requests that fail

ASSUME PollAssumption ==
    /\ Withdrawal \in Withdrawals /\ Agreed \in Terms /\ Required \in Confirmations
    /\ MaxDaa >= 1
    /\ {MaxReorgs, MaxFaults} \subseteq Nat

VARIABLES
    daa,        \* virtual DAA score
    block,      \* DAA score of the accepting block; Null when not accepted
    spent,      \* the recipient spent the output
    paid,       \* the terms the transaction's output really has
    reorgs,     \* how often the transaction was dropped
    step,       \* poller -> where it is
    answers,    \* poller -> answers of its poll so far
    faults,
    torn,       \* ghost: pollers that have answers of before and of after
                \* the transaction was accepted or dropped
    misled      \* ghost: the row was rejected on torn answers

chain  == <<daa, block, spent, paid, reorgs>>
client == <<step, answers, faults, misled>>
all    == <<withdrawals, chain, client, torn>>

Questions == {"daa", "utxo", "accepted"}
NoAnswers == [q \in {} |-> Null]

PollTypeOK ==
    /\ TypeOK
    /\ daa \in Daa /\ block \in Daa \cup {Null} /\ spent \in BOOLEAN
    /\ paid \in Terms /\ misled \in BOOLEAN
    /\ reorgs \in 0 .. MaxReorgs /\ faults \in 0 .. MaxFaults
    /\ step \in [Pollers -> {"off", "poll", "advance"}] /\ torn \subseteq Pollers
    /\ \A p \in Pollers : DOMAIN answers[p] \subseteq Questions

PollInit ==
    /\ Init
    /\ daa = 1 /\ block = Null /\ spent = FALSE /\ paid \in Terms /\ reorgs = 0
    /\ step = [p \in Pollers |-> "off"]
    /\ answers = [p \in Pollers |-> NoAnswers]
    /\ faults = 0 /\ torn = {} /\ misled = FALSE

-----------------------------------------------------------------------------
(* The chain; every change of the virtual state is a new block, and comes  *)
(* before, between or after the answers of a poll.                         *)
Block ==
    /\ daa < MaxDaa /\ daa' = daa + 1
    /\ UNCHANGED <<withdrawals, client>>

HalfAnswered == {p \in Pollers : DOMAIN answers[p] \notin {{}, Questions}}

NewBlock == Block /\ UNCHANGED <<block, spent, paid, reorgs, torn>>

AcceptTransaction ==
    /\ block = Null /\ Block
    /\ block' = daa' /\ torn' = torn \cup HalfAnswered
    /\ UNCHANGED <<spent, paid, reorgs>>

DropTransaction ==
    /\ block # Null /\ daa - block < Required /\ reorgs < MaxReorgs /\ Block
    /\ block' = Null /\ spent' = FALSE /\ reorgs' = reorgs + 1
    /\ torn' = torn \cup HalfAnswered
    /\ UNCHANGED paid

SpendOutput ==
    /\ block # Null /\ ~spent /\ Block
    /\ spent' = TRUE
    /\ UNCHANGED <<block, paid, reorgs, torn>>

-----------------------------------------------------------------------------
(* What the REST service answers now.  It may know a transaction that is   *)
(* not accepted, or not know it.                                           *)
Answer(question) ==
    CASE question = "daa"      -> {daa}
      [] question = "utxo"     -> {IF spent THEN Null ELSE block}
      [] question = "accepted" -> IF block = Null THEN {"no", "unknown"} ELSE {"yes"}

Goto(p, where) == step' = [step EXCEPT ![p] = where]

Forget(p) ==
    /\ answers' = [answers EXCEPT ![p] = NoAnswers]
    /\ torn' = torn \ {p}

(* The program is run, for the first time or again.                        *)
StartPoller(p) ==
    /\ step[p] = "off" /\ Goto(p, "poll")
    /\ Register(Withdrawal, Agreed, Required)
    /\ UNCHANGED <<chain, answers, faults, torn, misled>>

Ask(p, question) ==
    /\ step[p] = "poll" /\ question \notin DOMAIN answers[p]
    /\ \E a \in Answer(question) :
        answers' = [answers EXCEPT ![p] =
                      [q \in DOMAIN @ \cup {question} |-> IF q = question THEN a ELSE @[q]]]
    /\ UNCHANGED <<withdrawals, chain, step, faults, torn, misled>>

(* Mutant: what is paid is not compared.                                   *)
AnyTerms == TRUE

(* The output of that transaction and index pays whom, and what, it should. *)
Matches == paid = Agreed

(* The subtraction saturates: an output newer than the score is not deep.  *)
confirm_withdrawal(virtual_daa, block_daa) ==
    /\ block_daa # Null /\ Matches
    /\ virtual_daa - block_daa >= Required

(* What poll_withdrawal concludes from the answers the poller p has: it    *)
(* asks the first two questions alone, and nothing is written.             *)
poll_withdrawal(p) ==
    /\ {"daa", "utxo"} \subseteq DOMAIN answers[p]
    /\ confirm_withdrawal(answers[p]["daa"], answers[p]["utxo"])

(* The output is in the answer: observe it.  On an error the process ends. *)
ObserveOutput(p) ==
    LET a == answers[p] IN
    /\ step[p] = "poll" /\ DOMAIN a = Questions
    /\ \/ /\ a["utxo"] = Null
          /\ Goto(p, "advance")
          /\ UNCHANGED <<withdrawals, answers, torn>>
       \/ /\ a["utxo"] # Null /\ Matches
          /\ Observe(Withdrawal, a["daa"], a["utxo"])
          /\ Goto(p, "advance")
          /\ UNCHANGED <<answers, torn>>
       \/ /\ a["utxo"] # Null
          /\ ~(Matches /\ CanObserve(Withdrawal, a["daa"], a["utxo"]))
          /\ Goto(p, "off") /\ Forget(p)
          /\ UNCHANGED withdrawals
    /\ UNCHANGED <<chain, faults, misled>>

State == withdrawals[Withdrawal].state

Decided == State \in {"confirmed", "rejected"}

(* The process ends when the withdrawal is decided, on an error, and when  *)
(* the withdrawal is undecided at the deadline; else it polls again.       *)
AdvanceWithdrawal(p) ==
    LET a == answers[p] IN
    /\ step[p] = "advance"
    /\ \/ /\ Advance(Withdrawal, a["daa"], a["accepted"])
          /\ misled' = (misled \/ (p \in torn /\ State' = "rejected"))
          /\ \/ Goto(p, "off")
             \/ ~Decided' /\ Goto(p, "poll")
       \/ /\ ~CanAdvance(Withdrawal, a["daa"])
          /\ Goto(p, "off")
          /\ UNCHANGED <<withdrawals, misled>>
    /\ Forget(p)
    /\ UNCHANGED <<chain, faults>>

(* A request fails, that of the transaction also after the output was      *)
(* observed: the process polls again, or ends at its deadline.  Or it is   *)
(* killed.                                                                 *)
FailPoll(p) ==
    /\ step[p] # "off" /\ faults < MaxFaults
    /\ \E where \in {"poll", "off"} : Goto(p, where)
    /\ Forget(p) /\ faults' = faults + 1
    /\ UNCHANGED <<withdrawals, chain, misled>>

Chain == NewBlock \/ AcceptTransaction \/ DropTransaction \/ SpendOutput
Poll(p) ==
    \/ StartPoller(p) \/ \E q \in Questions : Ask(p, q)
    \/ ObserveOutput(p) \/ AdvanceWithdrawal(p)

PollNext == Chain \/ \E p \in Pollers : Poll(p) \/ FailPoll(p)

PollSpec == PollInit /\ [][PollNext]_all

(* The behaviours in which every poll is answered of one chain.            *)
WholePollSpec == PollInit /\ [][PollNext /\ torn' = {}]_all

(* The program is run again until the withdrawal is decided ("durable      *)
(* state retained" is what it says at its deadline), and its requests are  *)
(* answered in the end.                                                    *)
FairPollSpec == PollSpec /\ \A p \in Pollers : WF_all(Poll(p))

-----------------------------------------------------------------------------
(* "Observed transaction is no longer accepted": a withdrawal is rejected, *)
(* for good, only if its transaction was accepted once and then dropped.   *)
(* It is not so of a poll that was told of the transaction before it was   *)
(* accepted and of the score and the output after.                         *)
RejectedWasDropped == State = "rejected" => reorgs > 0

(* Of every other poll it is, however old its answers are when they reach  *)
(* the ledger and whatever another poller wrote in between.                *)
OnlyTornRejects == State = "rejected" => reorgs > 0 \/ misled

Buried == block # Null /\ daa - block >= Required

(* A withdrawal is never completed, in the ledger or by poll_withdrawal,   *)
(* unless what was paid is what was agreed.  poll_withdrawal calls it      *)
(* confirmed only when the transaction is, for good, as deep as asked for, *)
(* unless a reorg dropped the transaction between its two answers: the     *)
(* output is then of the chain before and the score of the one after.  The *)
(* ledger does so only when it is, unless there was a reorg.               *)
CompletedIsPaid ==
    /\ \A p \in Pollers : poll_withdrawal(p) =>
          paid = Agreed /\ (Buried \/ (p \in torn /\ reorgs > 0))
    /\ State = "confirmed" => paid = Agreed /\ (Buried \/ reorgs > 0)

(* What must hold between any two steps.                                   *)
Consistent == PollTypeOK /\ CompletedIsPaid

(* "Outbound payment an exchange would not mark complete until DAA depth"  *)
(* (src/exchange.rs).  The ledger does, on torn answers as poll_withdrawal *)
(* does, and also when no poll is torn: a reorg moves the transaction to a *)
(* later block, the output is spent before it is seen there, and the depth *)
(* is counted from the block it was first seen in.                         *)
ConfirmedIsBuried == State = "confirmed" => Buried

(* A withdrawal whose output was seen in its block, and whose transaction  *)
(* stays accepted in that block until it is Required deep, is confirmed,   *)
(* although the recipient may have spent the output in the meantime, and   *)
(* whatever deadlines pass; unless it was rejected on torn answers before. *)
EventuallyConfirmed ==
    <>[](/\ block # Null /\ daa >= block + Required
         /\ withdrawals[Withdrawal].observed_block_daa = block)
      => <>(State = "confirmed" \/ misled)
=============================================================================
