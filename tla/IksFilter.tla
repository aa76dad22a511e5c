---- MODULE IksFilter ----
(***************************************************************************)
(* ec/jabber/filter.c: a doubly linked list of rules, each with a hook,    *)
(* and iks_filter_packet, which asks the hooks in the order of the scores  *)
(* until one of them eats the packet.  A rule is a node of the heap,       *)
(* numbered in the order of iks_filter_add_rule; 0 is NULL.  Everything    *)
(* runs on one thread, so no rule comes or goes while a packet is on its   *)
(* way; a packet takes one step for each hook.                             *)
(***************************************************************************)
EXTENDS FilterRules, Sequences

CONSTANTS
    Rules,                  \* the rules that may be added
    Hooks,                  \* the hooks that may be added with them
    Packets,                \* the packets that may come
    MaxRules                \* bound: calls of iks_filter_add_rule

ASSUME FilterAssumption == MaxRules \in Nat

VARIABLES
    heap,                   \* the nodes that are allocated
    first, last,            \* f->rules, f->last_rule
    made,                   \* number of nodes made so far
    pak,                    \* the packet on its way: a sequence of at most one
    asked                   \* history: the nodes whose hook it was given to

filterVars == <<heap, first, last, made, pak, asked>>

Null == 0

Node(n) == heap[n]

\* iks_filter_new.
FilterInit ==
    /\ heap = [n \in {} |-> Null] /\ first = Null /\ last = Null /\ made = 0
    /\ pak = <<>> /\ asked = <<>>

Idle == pak = <<>>

iks_filter_add_rule ==
    /\ Idle /\ made < MaxRules
    /\ made' = made + 1
    /\ \E r \in Rules, h \in Hooks :
          heap' = [n \in DOMAIN heap \union {made'} |->
                     IF n = made' THEN [rule |-> r, hook |-> h, score |-> 0,
                                        next |-> Null, prev |-> last]
                     ELSE IF n = last THEN [Node(n) EXCEPT !.next = made']
                     ELSE Node(n)]
    /\ first' = IF first = Null THEN made' ELSE first
    /\ last' = made'
    /\ UNCHANGED <<pak, asked>>

\* Slip: the last rule of the list may be gone.
Without_KeepsLast(f, n) ==
    LET node == f.heap[n]
        link(m) == [f.heap[m] EXCEPT
                      !.next = IF m = node.prev THEN node.next ELSE @,
                      !.prev = IF m = node.next THEN node.prev ELSE @]
    IN  [heap  |-> [m \in DOMAIN f.heap \ {n} |-> link(m)],
         first |-> IF f.first = n THEN node.next ELSE f.first,
         last  |-> f.last]

\* Slip: the node behind still points back to the one that is gone.
Without_OneWay(f, n) ==
    LET node == f.heap[n]
        link(m) == [f.heap[m] EXCEPT !.next = IF m = node.prev THEN node.next ELSE @]
    IN  [heap  |-> [m \in DOMAIN f.heap \ {n} |-> link(m)],
         first |-> IF f.first = n THEN node.next ELSE f.first,
         last  |-> IF f.last = n THEN node.prev ELSE f.last]

\* The list f = [heap, first, last] without the node n, which is freed.
Without(f, n) ==
    LET node == f.heap[n]
        link(m) == [f.heap[m] EXCEPT
                      !.next = IF m = node.prev THEN node.next ELSE @,
                      !.prev = IF m = node.next THEN node.prev ELSE @]
    IN  [heap  |-> [m \in DOMAIN f.heap \ {n} |-> link(m)],
         first |-> IF f.first = n THEN node.next ELSE f.first,
         last  |-> IF f.last = n THEN node.prev ELSE f.last]

Filter == [heap |-> heap, first |-> first, last |-> last]

Becomes(f) == heap' = f.heap /\ first' = f.first /\ last' = f.last

iks_filter_remove_rule ==
    /\ Idle
    /\ \E n \in DOMAIN heap : Becomes(Without(Filter, n))
    /\ UNCHANGED <<made, pak, asked>>

\* The loops over the list take at most one turn for each node ever made.
Turns == 0 .. made

\* A turn of the loop of iks_filter_remove_hook, which reads the next node
\* before it frees one.
RemoveTurn(loop, h) ==
    IF loop.rule = Null THEN loop
    ELSE [rule |-> loop.f.heap[loop.rule].next,
          f    |-> IF loop.f.heap[loop.rule].hook = h THEN Without(loop.f, loop.rule)
                   ELSE loop.f]

WithoutHook(h) ==
    LET Loop[i \in Turns] == IF i = 0 THEN [rule |-> first, f |-> Filter]
                             ELSE RemoveTurn(Loop[i - 1], h)
    IN  Loop[made].f

iks_filter_remove_hook ==
    /\ Idle
    /\ \E h \in Hooks : Becomes(WithoutHook(h))
    /\ UNCHANGED <<made, pak, asked>>

---------------------------------------------------------------------------
(* iks_filter_packet.                                                      *)

\* Slip: a later rule is asked before an older one with the same score.
MaxTurn_Later(loop) ==
    IF loop.rule = Null THEN loop
    ELSE [rule |-> Node(loop.rule).next,
          max_rule |-> IF /\ Node(loop.rule).score > 0
                          /\ \/ loop.max_rule = Null
                             \/ Node(loop.rule).score >= Node(loop.max_rule).score
                       THEN loop.rule ELSE loop.max_rule]

\* A turn of the loops that look for the highest score; max_score is that of
\* max_rule, or 0.
MaxTurn(loop) ==
    IF loop.rule = Null THEN loop
    ELSE [rule |-> Node(loop.rule).next,
          max_rule |-> IF /\ Node(loop.rule).score > 0
                          /\ \/ loop.max_rule = Null
                             \/ Node(loop.rule).score > Node(loop.max_rule).score
                       THEN loop.rule ELSE loop.max_rule]

\* What they leave in max_rule.
MaxRule ==
    LET Loop[i \in Turns] == IF i = 0 THEN [rule |-> first, max_rule |-> Null]
                             ELSE MaxTurn(Loop[i - 1])
    IN  Loop[made].max_rule

\* The first loop.
Receive ==
    /\ Idle
    /\ \E p \in Packets :
          /\ pak' = <<p>>
          /\ heap' = [n \in DOMAIN heap |->
                        [Node(n) EXCEPT !.score = Score(Node(n).rule, p)]]
    /\ asked' = <<>>
    /\ UNCHANGED <<first, last, made>>

\* A hook eats the packet, or no rule is left.
Eaten ==
    /\ ~Idle /\ MaxRule # Null
    /\ asked' = Append(asked, MaxRule)
    /\ pak' = <<>>
    /\ UNCHANGED <<heap, first, last, made>>

Nobody ==
    /\ ~Idle /\ MaxRule = Null
    /\ pak' = <<>>
    /\ UNCHANGED <<heap, first, last, made, asked>>

\* A hook leaves the packet to the others.
Passed ==
    /\ ~Idle /\ MaxRule # Null
    /\ asked' = Append(asked, MaxRule)
    /\ heap' = [heap EXCEPT ![MaxRule].score = 0]
    /\ UNCHANGED <<first, last, made, pak>>

FilterNext ==
    \/ iks_filter_add_rule \/ iks_filter_remove_rule \/ iks_filter_remove_hook
    \/ Receive \/ Eaten \/ Nobody \/ Passed

FilterSpec == FilterInit /\ [][FilterNext]_filterVars

---------------------------------------------------------------------------
(* Properties.                                                             *)

\* The ranges of the variables.
FilterTypeOK ==
    /\ DOMAIN heap \subseteq 1 .. made
    /\ \A n \in DOMAIN heap :
          Node(n) \in [rule : Rules, hook : Hooks, score : Nat, next : Nat, prev : Nat]
    /\ first \in {Null} \union DOMAIN heap /\ last \in {Null} \union DOMAIN heap
    /\ made \in 0 .. MaxRules
    /\ pak = <<>> \/ \E p \in Packets : pak = <<p>>
    /\ asked \in Seq(1 .. made)

IsFirst(n, S) == IF S = {} THEN n = Null ELSE n \in S /\ \A m \in S : n <= m
IsLast(n, S)  == IF S = {} THEN n = Null ELSE n \in S /\ \A m \in S : m <= n

\* The list is sound: forwards it has every node once, in the order they were
\* added, backwards the same, and nothing points into freed memory.
ListSound ==
    /\ IsFirst(first, DOMAIN heap) /\ IsLast(last, DOMAIN heap)
    /\ \A n \in DOMAIN heap : /\ IsFirst(Node(n).next, {m \in DOMAIN heap : m > n})
                              /\ IsLast(Node(n).prev, {m \in DOMAIN heap : m < n})

\* The hooks are asked from the rule that says most about the packet down,
\* older rules first, none of a rule that does not match, and none twice; when
\* nobody is left to ask, every rule the packet meets was asked.
AskedByScore ==
    ~Idle =>
        LET s(n) == Score(Node(n).rule, Head(pak))
        IN  /\ \A i \in 1 .. Len(asked) : s(asked[i]) > 0
            /\ \A i, j \in 1 .. Len(asked) : i < j =>
                  \/ s(asked[i]) > s(asked[j])
                  \/ s(asked[i]) = s(asked[j]) /\ asked[i] < asked[j]
            /\ MaxRule = Null => \A n \in DOMAIN heap :
                  s(n) > 0 => \E i \in 1 .. Len(asked) : asked[i] = n
====
