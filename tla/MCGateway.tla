----------------------------- MODULE MCGateway -----------------------------
(* Small gateways for TLC.  ali and veli are names, the policy allows acme  *)
(* and blocks flu.                                                          *)
EXTENDS Gateway, TLC

CONSTANTS ali, veli, acme, flu, kisi, kurum, saglik

MCLabelOf == [d \in Datum |->
    IF d = acme THEN kurum ELSE IF d = flu THEN saglik ELSE kisi]

\* The rule for the type of acme wins over the one for its class before it.
MCRules ==
    <<[types |-> {}, kvkkClass |-> {acme, ali, veli}, action |-> "mask"],
      [types |-> {acme}, kvkkClass |-> {}, action |-> "allow"]>>

Kisi(i) == [label |-> kisi, index |-> i, suffix |-> Bare]
MCGuesses == {Kisi(1), Kisi(2)}

\* One value, one beside an allowed one, two of a label in both orders, two
\* segments, a blocked value, and a placeholder the client wrote itself.
MCBodies ==
    {<< <<ali>> >>, << <<veli, acme>> >>, << <<ali, veli>> >>, << <<veli, ali>> >>,
     << <<ali>>, <<veli, veli>> >>, << <<ali, flu>> >>, << <<Kisi(1), ali>> >>}

\* Fewer of them, for the requests whose answers are scanned.
MCScanned ==
    {<< <<ali>> >>, << <<veli, acme, ali>> >>, << <<ali, flu>> >>, << <<Kisi(1), ali>> >>}

Alike == Permutations(Request) \cup Permutations(Scope)
=============================================================================
