------------------------------ MODULE MCIntake ------------------------------
(* Small collections, with one thing that cannot be read at a time.          *)
EXTENDS Intake, TLC

Good(type) == [type |-> type, fails |-> "none"]

\* A directory of an image and an empty file between a file and another image.
Base ==
    <<>> :> Good("dir")
    @@ <<1>> :> Good("raw")
    @@ <<2>> :> Good("dir")
    @@ <<2, 1>> :> Good("ewf")
    @@ <<2, 2>> :> Good("empty")
    @@ <<3>> :> Good("ewf")
    @@ <<4>> :> Good("other")

\* Directories only, one in the other, with an image at the bottom.
Deep ==
    <<>> :> Good("dir")
    @@ <<2>> :> Good("dir")
    @@ <<2, 3>> :> Good("dir")
    @@ <<2, 3, 1>> :> Good("raw")
    @@ <<2, 1>> :> Good("ewf")
    @@ <<1>> :> Good("raw")

\* The same tree, of files that need no libewf.
Plain(t) == [p \in DOMAIN t |-> IF t[p].type = "ewf" THEN Good("raw") ELSE t[p]]

Failing(t) ==
    {[t EXCEPT ![p].fails = how] :
        p \in DOMAIN t \ {<<>>}, how \in {"entry", "type", "metadata"}}
    \cup {[t EXCEPT ![<<>>].fails = "metadata"]}
    \cup {[t EXCEPT ![p].fails = "list"] : p \in {q \in DOMAIN t : t[q].type = "dir"}}

MCTrees ==
    {Base, Deep, <<>> :> Good("raw")}
    \cup Failing(Plain(Base)) \cup Failing(Plain(Deep))

MCImages == {<<2, 1>>, <<3>>}
MCRequests == {[offset |-> 0, n |-> 2], [offset |-> 2, n |-> 2]}
=============================================================================
