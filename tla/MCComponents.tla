----------------------------- MODULE MCComponents -----------------------------
(* Instances of Components for TLC. *)
EXTENDS Components

CONSTANTS
    u1,             \* a covenant's UTXO
    o1, o2,         \* outpoints
    c1, c2          \* the clients of the HTTP API

MCTicker == [s \in {"kasp", "KASP"} |-> "KASP"]
MCAmount == [op \in {o1, o2} |-> IF op = o1 THEN 1 ELSE 2]
MCDualUrls == <<"a", "b">>
MCEnvironments == {[urls |-> 0, min |-> 0, require |-> TRUE],
                   [urls |-> 2, min |-> 2, require |-> TRUE],
                   [urls |-> 3, min |-> 3, require |-> TRUE],
                   [urls |-> 0, min |-> 1, require |-> FALSE]}
MCFeeTxs ==
    LET Entry   == [amount : 1 .. 2, given : BOOLEAN]
        Entries == {<<>>} \cup {<<e>> : e \in Entry} \cup (Entry \X Entry)
    IN  [ins : Entries, outs : Entries]
MCProofFiles ==
    {p \in [txids : (1 .. 3) \X (1 .. 3), covenant_id : 1 .. 3] :
        p.covenant_id <= p.txids[1] /\ p.txids[1] <= p.txids[2]}
MCBodies == {<<>>, <<"a">>, <<"a", "b">>, <<"b", "b">>}
=============================================================================
