------------------------------ MODULE Statechart ------------------------------
(***************************************************************************)
(* A statechart declaration as the executor reads it                       *)
(* (src/dsl41/state_machine.py): the tree of states and regions, what one  *)
(* event selects in a configuration, which states a row leaves and enters, *)
(* and the checks a declaration passes before it is used.                  *)
(*                                                                         *)
(* A declaration d is a record:                                            *)
(*   order    the states, as declared (a parent before its states)         *)
(*   parent   of each state: the state whose region it is in, or None      *)
(*   slot     of each state: the number of that region                     *)
(*   initial  of each <<state, slot>>: where the region begins             *)
(*   final    the final states                                             *)
(*   defer    of each state: the events it defers                          *)
(*   entry, exit   of each state: an action, or ""                         *)
(*   rows     the transitions                                              *)
(*   acts     of each action's name: what it reports                       *)
(*   timers   the events that carry a generation                           *)
(*   bound, overflow   of the deferred queue                               *)
(*   counted, limit    the chained step a guard bounds, and how often      *)
(*   saved    the configurations a tier may restore an instance in         *)
(* A row's target is its list of branches: one without a guard for a plain *)
(* state, several for a choice, none for a row that is not external.       *)
(*                                                                         *)
(* A guard reads one fact of its instance or counts one step of its item's *)
(* ancestry; the context x has both.  Ids, names of regions, exclusions,   *)
(* wait states, coverage and citations are left out.                       *)
(***************************************************************************)
EXTENDS Naturals, FiniteSets, Sequences, SequencesExt

None == "none"
COMPLETION == ""
OVERFLOWED == "overflowed"
INITIAL == "<initial>"

-----------------------------------------------------------------------------
(* The tree (_index, _path, _domain).                                      *)

States(d) == {d.order[i] : i \in DOMAIN d.order}

Declared(d, s, t) ==
  \E i, j \in DOMAIN d.order : i < j /\ d.order[i] = s /\ d.order[j] = t

\* The path of each state to the root, itself with it; how deep it is; and the states from
\* the innermost outward, regions as declared.
Index(d) ==
  LET up[s \in States(d)] == {s} \cup IF d.parent[s] = None THEN {} ELSE up[d.parent[s]]
      inner(s, t) == t # s /\ (t \in up[s] \/ (s \notin up[t] /\ Declared(d, s, t)))
  IN d @@ [up |-> up,
           depth |-> [s \in States(d) |-> Cardinality(up[s]) - 1],
           outward |-> SortSeq(d.order, inner)]

Root(c) == c.order[1]

Below(c, s, t) == s # t /\ t \in c.up[s]

Slots(c, s) == {p[2] : p \in {q \in DOMAIN c.initial : q[1] = s}}

Simple(c, s) == Slots(c, s) = {}

\* The state of s's path that is in a region of o; the root's region has no owner.
Inside(c, s, o) == CHOOSE t \in c.up[s] : c.parent[t] = o

Targets(r) == {r.branches[i].target : i \in DOMAIN r.branches}

\* The owner of the innermost region that holds the source and every target of a row: an
\* endpoint that contains the others is left too.
Holding(c, S) ==
  {o \in States(c) : /\ \A s \in S : Below(c, s, o)
                     /\ \A s, t \in S : c.slot[Inside(c, s, o)] = c.slot[Inside(c, t, o)]}

Owner(c, r) ==
  LET H == Holding(c, {r.source} \cup Targets(r))
  IN IF H = {} THEN None ELSE CHOOSE o \in H : \A p \in H : p \in c.up[o]

\* What of that region the row leaves, and enters on the way to a target.
ExitTop(c, r) == Inside(c, r.source, Owner(c, r))
EntryTop(c, r, target) == Inside(c, target, Owner(c, r))

\* Two states in sibling regions of their innermost common ancestor.
Crosses(c, s, t) ==
  LET common == c.up[s] \cap c.up[t]
      top == CHOOSE u \in common : \A v \in common : v \in c.up[u]
  IN /\ s \notin common /\ t \notin common
     /\ c.slot[Inside(c, s, top)] # c.slot[Inside(c, t, top)]

\* What a row leaves in a configuration, inner to outer, and what it enters, outer to inner:
\* the way down to the target, and the initial states of the regions beside it.
ExitSet(c, A, r) ==
  IF r.kind = "external" THEN {s \in A : ExitTop(c, r) \in c.up[s]} ELSE {}

ExitOrder(c, A, r) == SelectSeq(c.outward, LAMBDA s : s \in ExitSet(c, A, r))

EntrySet(c, top, target) ==
  LET under(s, i) ==
        {t \in c.up[target] : c.parent[t] = s /\ c.slot[t] = i /\ top \in c.up[t]}
      next(s, i) == IF under(s, i) # {} THEN CHOOSE t \in under(s, i) : TRUE
                                        ELSE c.initial[<<s, i>>]
      entered[s \in States(c)] == {s} \cup UNION {entered[next(s, i)] : i \in Slots(c, s)}
  IN entered[top]

EntryOrder(c, top, target) ==
  SelectSeq(c.order, LAMBDA s : s \in EntrySet(c, top, target))

\* _configuration_problem: the root, and of each active state its parent and one state of
\* each region.
Configuration(c, A) ==
  /\ A \subseteq States(c) /\ Root(c) \in A
  /\ \A s \in A :
       /\ c.parent[s] # None => c.parent[s] \in A
       /\ \A i \in Slots(c, s) :
            Cardinality({t \in A : c.parent[t] = s /\ c.slot[t] = i}) = 1

Leaves(c, A) == SelectSeq(c.order, LAMBDA s : s \in A /\ Simple(c, s))

\* An instance whose leaves are all final ignores what nothing decides (_final_leaves).
AtTheEnd(c, A) == A # {} /\ \A s \in A : Simple(c, s) => s \in c.final

-----------------------------------------------------------------------------
(* Selection (_select).                                                    *)

Holds(c, g, x) ==
  \/ g = ""
  \/ g = "set" /\ x.data
  \/ g = "unset" /\ ~x.data
  \/ g = "fresh" /\ x.nested < c.limit
  \/ g = "spent" /\ x.nested >= c.limit

RowsOf(c, s, e) == {r \in c.rows : r.source = s /\ r.event = e}

Enabled(c, s, e, x) == {r \in RowsOf(c, s, e) : Holds(c, r.guard, x)}

\* Each leaf's walk goes outward to the first state with an enabled row, or a deferral.
Walk(c, l, e, x) == {s \in c.up[l] : Enabled(c, s, e, x) # {} \/ e \in c.defer[s]}

Decider(c, l, e, x) ==
  LET W == Walk(c, l, e, x)
  IN IF W = {} THEN None ELSE CHOOSE s \in W : W \subseteq c.up[s]

\* An ignored row yields to any other.
Yielded(R) ==
  LET consuming == {r \in R : r.kind # "ignored"}
  IN IF consuming # {} THEN consuming ELSE R

\* From the deepest source outward: a row that leaves what a deeper one leaves is dropped.
WithoutConflicts(c, A, R) ==
  LET meets(r, S) == \E k \in S : ExitSet(c, A, r) \cap ExitSet(c, A, k) # {}
      level(kept, n) == kept \cup {r \in R : c.depth[r.source] = n /\ ~meets(r, kept)}
  IN IF Cardinality(R) <= 1 THEN R
     ELSE FoldLeft(level, {}, [i \in DOMAIN c.order |-> Len(c.order) - i])

\* And a row whose source another one leaves.
Surviving(c, A, R) ==
  {r \in R : \A o \in R \ {r} : r.source \notin ExitSet(c, A, o)}

\* The states that decide event e, in the order of the regions, with their enabled rows: none
\* where a state defers the event.
Found(c, A, e, x) ==
  LET joined(found, s) ==
        IF s = None \/ \E i \in DOMAIN found : found[i].state = s THEN found
        ELSE Append(found, [state |-> s, rows |-> Enabled(c, s, e, x)])
  IN FoldLeft(LAMBDA found, l : joined(found, Decider(c, l, e, x)), <<>>, Leaves(c, A))

\* An inner deferral beats the row of a state the regions share.
Kept(c, found) ==
  {r \in UNION {found[i].rows : i \in DOMAIN found} :
     \A i \in DOMAIN found : found[i].rows = {} => ~Below(c, found[i].state, r.source)}

\* Two enabled rows of one state, a refusal beside another row, or two rows of one depth
\* that leave a state both.
Ambiguous(c, A, found, yielded, apart) ==
  \/ \E i \in DOMAIN found : Cardinality(found[i].rows) > 1
  \/ \E r \in yielded : r.kind = "refusal" /\ yielded # {r}
  \/ \E a, b \in apart : /\ a # b /\ c.depth[a.source] = c.depth[b.source]
                         /\ ExitSet(c, A, a) \cap ExitSet(c, A, b) # {}

\* The firing set and the states that defer the event, both in the order of the regions; what
\* is dropped for its source; and whether the selection is ambiguous.
Selection(found, apart, firing, ambiguous) ==
  LET fire == SelectSeq(found, LAMBDA f : f.rows \cap firing # {})
      defer == SelectSeq(found, LAMBDA f : f.rows = {})
  IN [rows |-> [i \in DOMAIN fire |-> CHOOSE r \in fire[i].rows \cap firing : TRUE],
      deferring |-> [i \in DOMAIN defer |-> defer[i].state],
      dropped |-> apart \ firing,
      ambiguous |-> ambiguous]

\* The rows found, cut down in turn: those that yield, those in conflict, those left behind.
Settled(c, A, found, yielded, apart) ==
  Selection(found, apart, Surviving(c, A, apart), Ambiguous(c, A, found, yielded, apart))

Apart(c, A, found, yielded) == Settled(c, A, found, yielded, WithoutConflicts(c, A, yielded))

Among(c, A, found) == Apart(c, A, found, Yielded(Kept(c, found)))

\* What event e comes to in configuration A.
Select(c, A, e, x) == Among(c, A, Found(c, A, e, x))

-----------------------------------------------------------------------------
(* The checks of a declaration (well_formed, chart_warnings).              *)

Alphabet(c) ==
  ({r.event : r \in c.rows} \cup c.timers \cup UNION {c.defer[s] : s \in States(c)})
    \ {COMPLETION, OVERFLOWED}

RowsSound(c) ==
  \A r \in c.rows :
    /\ r.source \notin c.final
    /\ (r.kind = "external") = (r.branches # <<>>)
    /\ r.event = COMPLETION => r.kind = "external"
    /\ r.event = OVERFLOWED => r.kind = "internal" /\ c.defer[r.source] # {}
    /\ \A i \in DOMAIN r.branches : (r.branches[i].guard = "") = (i = Len(r.branches))

\* A row never targets a state in a sibling region.
SiblingsApart(c) == \A r \in c.rows : \A t \in Targets(r) : ~Crosses(c, r.source, t)

DeferralsBounded(c) ==
  \A s \in States(c) : c.defer[s] # {} =>
    /\ c.bound >= 1 /\ s \notin c.final
    /\ c.overflow = "drop" => RowsOf(c, s, OVERFLOWED) # {}

\* Every state is entered by the initial entry or by some row.
EntersFrom(c, S) ==
  UNION {EntrySet(c, EntryTop(c, r, t), t) :
           <<r, t>> \in {p \in c.rows \X States(c) : p[1].source \in S /\ p[2] \in Targets(p[1])}}

AllReached(c) ==
  FoldLeft(LAMBDA reached, s : reached \cup EntersFrom(c, reached),
           EntrySet(c, Root(c), Root(c)), c.order)
    = States(c)

\* (mutant) One region that takes the event is enough for the composite's others, and one
\* that does not is overlooked.
BadFallsThrough(c, e) ==
  LET hole[s \in States(c)] ==
        IF RowsOf(c, s, e) # {} \/ e \in c.defer[s] THEN "none"
        ELSE IF Simple(c, s) THEN IF s \in c.final THEN "final" ELSE "open"
        ELSE hole[c.initial[<<s, 0>>]]
  IN hole[Root(c)] = "open"

\* _fall_through: whether some configuration below a state has no row and no deferral for
\* the event in any active state, and then whether it can have a leaf that is not final.
FallsThrough(c, e) ==
  LET hole[s \in States(c)] ==
        LET of(i) == {hole[t] : t \in {u \in States(c) : c.parent[u] = s /\ c.slot[u] = i}}
        IN IF RowsOf(c, s, e) # {} \/ e \in c.defer[s] THEN "none"
           ELSE IF Simple(c, s) THEN IF s \in c.final THEN "final" ELSE "open"
           ELSE IF \E i \in Slots(c, s) : of(i) = {"none"} THEN "none"
           ELSE IF \E i \in Slots(c, s) : "open" \in of(i) THEN "open"
           ELSE "final"
  IN hole[Root(c)] = "open"

WellFormed(c) ==
  /\ RowsSound(c) /\ SiblingsApart(c) /\ DeferralsBounded(c) /\ AllReached(c)
  /\ \A e \in Alphabet(c) : ~FallsThrough(c, e)

\* The guards of a state's rows for one event partition the cases, by contract.
GuardsPartition(c) ==
  \A r \in c.rows :
    LET beside == RowsOf(c, r.source, r.event)
    IN /\ {q.guard : q \in beside} \in {{""}, {"set", "unset"}, {"fresh", "spent"}}
       /\ Cardinality(beside) = Cardinality({q.guard : q \in beside})

\* Two regions' walks can reach both states in one configuration.
Beside(c, s, t) ==
  \/ Crosses(c, s, t)
  \/ \E u \in {s, t}, l \in {s, t} :
       /\ Below(c, l, u)
       /\ \E m \in c.up[l] \ {l} : u \in c.up[m] /\ Cardinality(Slots(c, m)) > 1

LeavesSource(c, a, b) ==
  /\ a.kind # "external" /\ b.kind = "external"
  /\ Beside(c, a.source, b.source)
  /\ ExitTop(c, b) \in c.up[a.source]

LeavesShared(c, a, b) ==
  /\ Crosses(c, a.source, b.source)
  /\ \E r \in {a, b} : r.kind = "external" /\ ExitTop(c, r) \in c.up[a.source] \cap c.up[b.source]

Warned(c) ==
  \E a, b \in c.rows :
    /\ a # b /\ a.event = b.event
    /\ \/ /\ "refusal" \in {a.kind, b.kind} /\ "ignored" \notin {a.kind, b.kind}
          /\ Beside(c, a.source, b.source)
       \/ ~Crosses(c, a.source, b.source) /\ LeavesSource(c, a, b)
       \/ LeavesShared(c, a, b)
=============================================================================
