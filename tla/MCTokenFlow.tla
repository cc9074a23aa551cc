---------------------------- MODULE MCTokenFlow ----------------------------
(***************************************************************************)
(* The diagrams on which TLC checks TokenFlow.                             *)
(***************************************************************************)
EXTENDS TokenFlow, TLC

\* A fork and a parallel join.
Parallel ==
    [kind  |-> "s" :> "start" @@ "p" :> "parallel" @@ "a" :> "task" @@ "b" :> "task"
               @@ "j" :> "parallel" @@ "e" :> "end",
     flows |-> {<<"s", "p">>, <<"p", "a">>, <<"p", "b">>, <<"a", "j">>, <<"b", "j">>, <<"j", "e">>}]

\* An inclusive join that waits for another one.
Nested ==
    [kind  |-> "s" :> "start" @@ "p" :> "inclusive" @@ "a" :> "task" @@ "b" :> "task"
               @@ "j" :> "inclusive" @@ "k" :> "inclusive" @@ "e" :> "end",
     flows |-> {<<"s", "p">>, <<"p", "a">>, <<"p", "b">>, <<"p", "k">>, <<"a", "j">>, <<"b", "j">>,
                <<"j", "k">>, <<"k", "e">>}]

\* A branch ends in a terminate end event.
Terminating ==
    [kind  |-> "s" :> "start" @@ "p" :> "parallel" @@ "a" :> "task" @@ "e" :> "end"
               @@ "t" :> "terminate",
     flows |-> {<<"s", "p">>, <<"p", "a">>, <<"p", "t">>, <<"a", "e">>}]

\* A parallel join in a loop.
Looping ==
    [kind  |-> "s" :> "start" @@ "x" :> "exclusive" @@ "p" :> "parallel" @@ "a" :> "task"
               @@ "j" :> "parallel" @@ "y" :> "exclusive" @@ "e" :> "end",
     flows |-> {<<"s", "x">>, <<"x", "p">>, <<"p", "a">>, <<"p", "j">>, <<"a", "j">>, <<"j", "y">>,
                <<"y", "x">>, <<"y", "e">>}]

\* Two tokens take the same flow into a join: a modelling error.
Doubling ==
    [kind  |-> "s" :> "start" @@ "p" :> "parallel" @@ "a" :> "task" @@ "b" :> "task"
               @@ "x" :> "exclusive" @@ "c" :> "task" @@ "j" :> "parallel" @@ "e" :> "end",
     flows |-> {<<"s", "p">>, <<"p", "a">>, <<"p", "b">>, <<"p", "c">>, <<"a", "x">>, <<"b", "x">>,
                <<"x", "j">>, <<"c", "j">>, <<"j", "e">>}]

\* A fork alone.
Fork ==
    [kind  |-> "s" :> "start" @@ "p" :> "parallel" @@ "a" :> "task" @@ "e" :> "end" @@ "g" :> "end",
     flows |-> {<<"s", "p">>, <<"p", "a">>, <<"p", "e">>, <<"a", "g">>}]

\* Three events race; one of them leads nowhere.
Racing ==
    [kind  |-> "s" :> "start" @@ "v" :> "eventGateway" @@ "m" :> "message" @@ "n" :> "message"
               @@ "t" :> "timer" @@ "a" :> "task" @@ "e" :> "end",
     flows |-> {<<"s", "v">>, <<"v", "m">>, <<"v", "n">>, <<"v", "t">>, <<"m", "a">>, <<"t", "e">>,
                <<"a", "e">>}]

\* Two events race before an inclusive join at which a token waits already.
RacingToJoin ==
    [kind  |-> "s" :> "start" @@ "p" :> "inclusive" @@ "v" :> "eventGateway" @@ "m" :> "message"
               @@ "t" :> "timer" @@ "j" :> "inclusive" @@ "e" :> "end",
     flows |-> {<<"s", "p">>, <<"p", "v">>, <<"p", "j">>, <<"v", "m">>, <<"v", "t">>,
                <<"m", "j">>, <<"t", "e">>, <<"j", "e">>}]

\* A choice, and behind it a race, before a parallel join; a chosen flow may be empty.
Choosing ==
    [kind  |-> "s" :> "start" @@ "p" :> "parallel" @@ "x" :> "exclusive" @@ "v" :> "eventGateway"
               @@ "m" :> "message" @@ "t" :> "timer" @@ "y" :> "exclusive" @@ "j" :> "parallel",
     flows |-> {<<"s", "p">>, <<"p", "j">>, <<"p", "x">>, <<"x", "v">>, <<"x", "y">>, <<"v", "m">>,
                <<"v", "t">>, <<"m", "y">>, <<"t", "y">>, <<"y", "j">>}]

\* Two events race beside another branch.
RacingBeside ==
    [kind  |-> "s" :> "start" @@ "p" :> "parallel" @@ "v" :> "eventGateway" @@ "m" :> "message"
               @@ "t" :> "timer" @@ "a" :> "end" @@ "e" :> "end",
     flows |-> {<<"s", "p">>, <<"p", "v">>, <<"p", "a">>, <<"v", "m">>, <<"v", "t">>,
                <<"m", "e">>, <<"t", "e">>}]

SafeDiagrams == {Parallel, Nested, Terminating, Looping, Racing, RacingToJoin, Choosing}
AllDiagrams  == SafeDiagrams \cup {Doubling}
OneFork      == {Fork}
OneRace      == {RacingBeside}
OneTerminate == {Terminating}
=============================================================================
