------------------------------ MODULE Covenants ------------------------------
(***************************************************************************)
(* The off-chain covenant policies of src/covenant.rs: the 2-of-3 escrow,  *)
(* the HTLC and the time-locked native covenant, each a map from UTXO ids. *)
(* The engines share nothing, so a behaviour is of one of them.  A call    *)
(* that returns Err changes nothing: its conditions are guards.  A settled *)
(* UTXO leaves the map and is returned with its new status; the caller may *)
(* register what it holds again, whatever the status.                      *)
(***************************************************************************)
EXTENDS Naturals

CONSTANTS
    Ids,            \* UTXO ids
    Parties,        \* actor tags, payment hashes, destination hashes
    MaxDaa,         \* bound: DAA scores are 0 .. MaxDaa
    MaxFunds,       \* bound: how often an id is registered unsettled
    Null            \* no UTXO; no restriction of the destination

CovenantAssumption ==
    {MaxDaa, MaxFunds} \subseteq Nat /\ Null \notin Parties

VARIABLES
    engine,         \* the engine a behaviour is of
    daa,            \* the score the caller passes; it only grows
    utxos,          \* the engine's map
    funded, paid    \* ghost: registrations of an id unsettled, and payments

vars == <<engine, daa, utxos, funded, paid>>

Daa == 0 .. MaxDaa
Engines == {"escrow", "htlc", "native"}

Escrow == [buyer : Parties, seller : Parties, arbiter : Parties,
           refund_daa : Daa, status : 0 .. 3]
Htlc == [payment_hash : Parties, refund_daa : Daa, status : 0 .. 2]
Native == [min_daa : Daa, allowed : Parties \cup {Null}, status : {0}]

Utxos == CASE engine = "escrow" -> Escrow
           [] engine = "htlc"   -> Htlc
           [] engine = "native" -> Native

TypeOK ==
    /\ engine \in Engines /\ daa \in Daa
    /\ utxos \in [Ids -> Utxos \cup {Null}]
    /\ {funded, paid} \subseteq [Ids -> 0 .. MaxFunds]

Init ==
    /\ engine \in Engines /\ daa = 0
    /\ utxos = [u \in Ids |-> Null]
    /\ funded = [u \in Ids |-> 0]
    /\ paid = [u \in Ids |-> 0]

-----------------------------------------------------------------------------
(* Overwrites what the map has under the id.                               *)
Register(u, utxo) ==
    /\ funded[u] < MaxFunds
    /\ utxos' = [utxos EXCEPT ![u] = utxo]
    /\ funded' = [funded EXCEPT ![u] = IF utxo.status = 0 THEN @ + 1 ELSE @]
    /\ UNCHANGED <<engine, daa, paid>>

Settle(u) ==
    /\ utxos' = [utxos EXCEPT ![u] = Null]
    /\ paid' = [paid EXCEPT ![u] = @ + 1]
    /\ UNCHANGED <<engine, daa, funded>>

(* Mutant: any record in the map can be settled.                           *)
LiveWhateverStatus(utxo) == utxo # Null

(* In the map, and not a record that was settled before.                   *)
Live(utxo) == utxo # Null /\ utxo.status = 0

(* The two windows of an escrow or HTLC.                                   *)
ClaimOpen(utxo) == daa < utxo.refund_daa

(* Mutant: at the refund score itself nothing is open.                     *)
TimeoutLate(utxo) == daa > utxo.refund_daa

TimeoutOpen(utxo) == daa >= utxo.refund_daa

(* Mutant: the arbiter's tag is enough.                                    *)
EitherOf(a, b, left, right) == right \in {a, b}

PairOk(a, b, left, right) ==
    \/ a = left /\ b = right
    \/ a = right /\ b = left

CanRelease(u, a, b) ==
    /\ engine = "escrow" /\ Live(utxos[u]) /\ ClaimOpen(utxos[u])
    /\ PairOk(a, b, utxos[u].seller, utxos[u].arbiter)

CanRefundBuyer(u, a, b) ==
    /\ engine = "escrow" /\ Live(utxos[u]) /\ ClaimOpen(utxos[u])
    /\ PairOk(a, b, utxos[u].buyer, utxos[u].arbiter)

CanTimeout(u) ==
    engine = "escrow" /\ Live(utxos[u]) /\ TimeoutOpen(utxos[u])

CanClaim(u, preimage_hash) ==
    /\ engine = "htlc" /\ Live(utxos[u]) /\ ClaimOpen(utxos[u])
    /\ preimage_hash = utxos[u].payment_hash

CanRefund(u) ==
    engine = "htlc" /\ Live(utxos[u]) /\ TimeoutOpen(utxos[u])

(* An attached ZK proof is refused; a native covenant has no status.       *)
CanSpend(u, destination, zk_attached) ==
    /\ engine = "native" /\ ~zk_attached
    /\ utxos[u] # Null
    /\ daa >= utxos[u].min_daa
    /\ utxos[u].allowed \in {Null, destination}

ReleaseToSeller(u, a, b)   == CanRelease(u, a, b) /\ Settle(u)
RefundToBuyer(u, a, b)     == CanRefundBuyer(u, a, b) /\ Settle(u)
TimeoutToBuyer(u)          == CanTimeout(u) /\ Settle(u)
Claim(u, preimage_hash)    == CanClaim(u, preimage_hash) /\ Settle(u)
Refund(u)                  == CanRefund(u) /\ Settle(u)
VerifyAndSpend(u, dest, zk) == CanSpend(u, dest, zk) /\ Settle(u)

AdvanceDaa ==
    /\ daa < MaxDaa /\ daa' = daa + 1
    /\ UNCHANGED <<engine, utxos, funded, paid>>

Next ==
    \/ AdvanceDaa
    \/ \E u \in Ids :
        \/ \E utxo \in Utxos : Register(u, utxo)
        \/ \E a, b \in Parties : ReleaseToSeller(u, a, b) \/ RefundToBuyer(u, a, b)
        \/ TimeoutToBuyer(u)
        \/ \E hash \in Parties : Claim(u, hash)
        \/ Refund(u)
        \/ \E destination \in Parties, zk \in BOOLEAN :
            VerifyAndSpend(u, destination, zk)

Spec == Init /\ [][Next]_vars

-----------------------------------------------------------------------------
(* Every registration pays once at the most, by one of the ways out of it: *)
(* also when the caller puts a settled record back into the map, or puts a *)
(* new one over a live one.                                                *)
PaidOnce ==
    \A u \in Ids :
        paid[u] + (IF Live(utxos[u]) THEN 1 ELSE 0) <= funded[u]

(* At every score exactly one side of the refund score is open: a live     *)
(* escrow or HTLC can always be settled by somebody, and never by the      *)
(* claimant and by the timeout.                                            *)
OneWindowOpen ==
    \A u \in Ids :
        Live(utxos[u]) =>
            /\ engine = "escrow" =>
                  (\E a, b \in Parties : CanRelease(u, a, b)) # CanTimeout(u)
            /\ engine = "htlc" =>
                  (\E hash \in Parties : CanClaim(u, hash)) # CanRefund(u)

(* While its three parties differ, nobody settles an escrow alone before   *)
(* the timeout, and two of them agree on one way out only.                 *)
TwoOfThree ==
    \A u \in Ids :
        /\ engine = "escrow" /\ utxos[u] # Null
        /\ utxos[u].buyer # utxos[u].seller
        /\ utxos[u].arbiter \notin {utxos[u].buyer, utxos[u].seller}
        => \A a, b \in Parties :
                /\ ~(CanRelease(u, a, b) /\ CanRefundBuyer(u, a, b))
                /\ CanRelease(u, a, b) \/ CanRefundBuyer(u, a, b) => a # b
=============================================================================
