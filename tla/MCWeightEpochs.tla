--------------------------- MODULE MCWeightEpochs ---------------------------
(***************************************************************************)
(* A small instance of WeightEpochs: two cluster heads, epochs of two      *)
(* blocks, one block of margin.                                            *)
(***************************************************************************)
EXTENDS WeightEpochs

Coin(i, a, v) == [id |-> i, owner |-> a, value |-> v]
Payment(ins, outs) == [txid |-> 0, ins |-> ins, outs |-> outs, item |-> NoItem]
Member(a, m) == [stream |-> "membership", node |-> a, miner |-> m]
Score(a, s) == [stream |-> "esg", node |-> a, score |-> s]

Premine == Payment({}, {Coin("g1", "n1", 3), Coin("g2", "n2", 2)})

Setup == <<Publication("n1", 0, Member("n1", "n1")),
           Publication("n2", 0, Member("n2", "n2")),
           Publication("n1", 0, Score("n1", 2)),
           Publication("n1", 0, Score("n2", 1))>>

\* One member returns part of its coins; both sign a payment that returns
\* some and leaves a fee; the treasury pays a member; a member returns all.
Return == <<Payment({Coin("g1", "n1", 3)},
                    {Coin("p1", "treasury", 2), Coin("c1", "n1", 1)})>>
Joint == <<Payment({}, {Coin("f1", "n2", 1)}),
           Payment({Coin("c1", "n1", 1), Coin("g2", "n2", 2)},
                   {Coin("p2", "treasury", 1), Coin("c2", "n2", 1)})>>
Refund == <<Payment({Coin("p1", "treasury", 2)}, {Coin("c3", "n2", 2)})>>
ReturnAll == <<Payment({Coin("g1", "n1", 3)}, {Coin("p1", "treasury", 3)})>>

\* Height 0 is the genesis block, height 1 the memberships and the scores,
\* heights 1 to 3 the payments; the second history ends with a new score for
\* n2, which a reorganisation takes back.
Histories ==
    {<< <<Premine>>, Setup \o Return, Joint, Refund>>,
     << <<Premine>>, Setup \o ReturnAll, << >>,
        <<Publication("n1", 0, Score("n2", 2))>> >>}

\* n2 leaves its own cluster for the one of n1, so the inputs of both change.
NewInputs == {[by |-> "n2", item |-> Member("n2", "n1")]}
=============================================================================
