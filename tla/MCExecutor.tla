------------------------------ MODULE MCExecutor ------------------------------
(***************************************************************************)
(* Model checking the executor: one tree with two regions, a composite in  *)
(* one of them and final states, under many sets of rows and deferrals for *)
(* an event e; and two instances of it that send to each other.            *)
(***************************************************************************)
EXTENDS Executor

\* R { A { X: x1, P { z1, z2 }, x2;  Y: y1, y2 }, B, F }; z2, x2, y2 and F are final.
Order == <<"R", "A", "x1", "P", "z1", "z2", "x2", "y1", "y2", "B", "F">>
Parent == [R |-> None, A |-> "R", x1 |-> "A", P |-> "A", z1 |-> "P", z2 |-> "P", x2 |-> "A",
           y1 |-> "A", y2 |-> "A", B |-> "R", F |-> "R"]
Initial == (<<"R", 0>> :> "A") @@ (<<"A", 0>> :> "x1") @@ (<<"A", 1>> :> "y1") @@ (<<"P", 0>> :> "z1")

Row(source, event, kind, branches, guard, action) ==
  [source |-> source, event |-> event, kind |-> kind, branches |-> branches,
   guard |-> guard, action |-> action]

To(guard, target) == [guard |-> guard, target |-> target, action |-> ""]

Move(s, e, t) == Row(s, e, "external", <<To("", t)>>, "", "")
Within(s, e, action) == Row(s, e, "internal", <<>>, "", action)
Ignore(s, e) == Row(s, e, "ignored", <<>>, "", "")
Refuse(s, e) == Row(s, e, "refusal", <<>>, "", "")

\* What every chart does with n: through P and the two regions to B, and round or to the end.
Rounds ==
  {Move("x1", "n", "P"), Move("z1", "n", "z2"), Move("y1", "n", "y2"),
   Move("P", COMPLETION, "x2"), Move("A", COMPLETION, "B"),
   Row("B", "n", "external", <<To("set", "A"), To("", "F")>>, "", "")}

Nothing == [s \in ToSet(Order) |-> ""]

\* Leaving x1 arms t again; entering z2 sends e, "again" sends n, "echo" sends e to other
\* and continues with it.
Chart(rows, defer, bound, overflow, other) ==
  LET timers == {p[2] : p \in defer} \cap {"t"} IN
  Index([order |-> Order, parent |-> Parent,
         slot |-> [s \in ToSet(Order) |-> IF s \in {"y1", "y2"} THEN 1 ELSE 0],
         initial |-> Initial, final |-> {"z2", "x2", "y2", "F"},
         defer |-> [s \in ToSet(Order) |-> {e \in {"e", "t"} : <<s, e>> \in defer}],
         entry |-> [Nothing EXCEPT !["z2"] = "call"], exit |-> [Nothing EXCEPT !["x1"] = "arm"],
         rows |-> Rounds \cup rows,
         acts |-> [arm |-> [send |-> <<>>, then |-> "", rearm |-> timers],
                   call |-> [send |-> <<<<"k", "e">>>>, then |-> "", rearm |-> {}],
                   again |-> [send |-> <<<<"k", "n">>>>, then |-> "", rearm |-> {}],
                   echo |-> [send |-> <<<<other, "e">>>>, then |-> "again", rearm |-> {}]],
         timers |-> timers,
         bound |-> bound, overflow |-> overflow,
         counted |-> <<"k", "e">>, limit |-> 2,
         saved |-> {{"R", "A", "P", "z1", "y1"}}])

Upto(S, n) == {T \in SUBSET S : Cardinality(T) <= n}

\* Any two rows for e beside the root's that ignores it: leaving, staying, crossing, refusing.
Pairs ==
  Upto({Move("x1", "e", "B"), Move("y1", "e", "y2"), Move("y1", "e", "B"), Move("z1", "e", "x1"),
        Within("y1", "e", "again"), Within("A", "e", "arm"), Move("A", "e", "B"),
        Move("A", "e", "A"), Move("P", "e", "P"), Refuse("x1", "e")}, 2)

Crossing == {Chart(T \cup {Ignore("R", "e")}, {}, 0, "", "k") : T \in Pairs}

\* Rows for e at some states only, and none at the root.
Partial == {Chart({Ignore(s, "e") : s \in T}, {}, 0, "", "k") :
              T \in SUBSET {"x1", "z1", "P", "y1", "A", "B"}}

Over(defer, overflow) ==
  IF overflow = "drop" THEN {Within(p[1], OVERFLOWED, "arm") : p \in defer} ELSE {}

Deferrer(row, defer, bound, overflow) ==
  Chart({row, Ignore("R", "e"), Move("A", "t", "B"), Ignore("R", "t")} \cup Over(defer, overflow),
        defer, bound, overflow, "k")

\* Up to two states that defer e or t, beside one row, and either overflow policy; and queues
\* of two, where an event waits behind a head.
Deferring ==
  {Deferrer(row, defer, 1, overflow) :
     row \in {Move("y1", "e", "y2"), Move("A", "e", "B"), Within("B", "e", "again")},
     defer \in {T \in Upto({"x1", "z1", "y1", "A"} \X {"e", "t"}, 2) : T # {}},
     overflow \in {"stop", "drop"}}
    \cup
  {Deferrer(row, defer, 2, "drop") :
     row \in {Move("A", "e", "B"), Within("B", "e", "again")},
     defer \in {T \in SUBSET {<<"A", "e">>, <<"A", "t">>, <<"z1", "e">>} : T # {}}}

\* Two instances that both defer e: k's z2 sends e to both and moves the other, so that one
\* macrostep leaves both with heads to release and events behind them.
Sharing ==
  LET deferrer(row, call) ==
        [Chart({row, Ignore("R", "e")}, {<<"A", "e">>}, 2, "stop", "k") EXCEPT !.acts.call.send = call]
  IN {("k" :> deferrer(row, <<<<"k", "e">>, <<"l", "e">>, <<"l", "n">>>>))
        @@ ("l" :> deferrer(row, <<<<"l", "e">>>>)) :
       row \in {Move("B", "e", "A"), Within("B", "e", "again"), Ignore("B", "e")}}

\* e goes round between two instances until it is twice in the ancestry.
Echoing(other) ==
  [Chart({Row("R", "e", "internal", <<>>, "fresh", "echo"), Row("R", "e", "internal", <<>>, "spent", "")},
         {}, 0, "", other) EXCEPT !.entry = Nothing]

MCKeys == {"k", "l"}

MCEstates ==
  {("k" :> c) : c \in Crossing \cup Partial \cup Deferring} \cup Sharing
    \cup {("k" :> Echoing("k")), ("k" :> Echoing("l")) @@ ("l" :> Echoing("k"))}
=============================================================================
