---- MODULE KeyDebounce ----
(***************************************************************************)
(* driver_lib/driver/key.c: a key between its pin, the interrupt of its    *)
(* edges and two timers.  The pin is low while the key is down.  The key   *)
(* and its contacts are external: the pin changes at any time, also while  *)
(* a handler runs, and an edge is kept in the status register only if the  *)
(* interrupt waits for that edge.  A handler takes two steps, so that the  *)
(* pin may change between what it reads and what it then waits for.  The   *)
(* timers expire at any time after they were armed.                        *)
(***************************************************************************)
EXTENDS Naturals

CONSTANT Keys

VARIABLES
    pin,                    \* 0 while the key is down
    intr,                   \* the edge the interrupt of a key waits for
    status,                 \* its bit of the status register
    key_level,              \* the level the driver takes the key to have
    key_5s, key_50ms,       \* timers that are armed
    at,                     \* where the handler of a key is: nowhere, past the
                            \* disabling of its interrupt, or past the reading of a pin
    pressed,                \* history: the last call for a key
    missed                  \* history: since the pin was read last, an edge came that
                            \* nothing waited for

keyVars == <<pin, intr, status, key_level, key_5s, key_50ms, at, pressed, missed>>

Edges  == {"DISABLE", "NEGEDGE", "POSEDGE"}
Places == {"none", "served", "high", "low"}
Calls  == {"none", "short", "long"}

All(v) == [k \in Keys |-> v]

Set(f, k, v) == [f EXCEPT ![k] = v]

\* key_init_single and key_init; the keys may be down while the device starts.
KeyInit ==
    /\ pin \in [Keys -> {0, 1}]
    /\ intr = All("NEGEDGE") /\ status = All(FALSE) /\ key_level = All(1)
    /\ key_5s = All(FALSE) /\ key_50ms = All(FALSE) /\ at = All("none")
    /\ pressed = All("none") /\ missed = [k \in Keys |-> pin[k] = 0]

\* The edge is what the interrupt waits for, or it is lost; it does not matter
\* while the timer of 50 ms is going to look at the pin.
Edge(k) ==
    LET edge == IF pin[k] = 1 THEN "NEGEDGE" ELSE "POSEDGE"
    IN  /\ pin' = Set(pin, k, 1 - pin[k])
        /\ status' = Set(status, k, status[k] \/ intr[k] = edge)
        /\ missed' = Set(missed, k, missed[k] \/ (intr[k] # edge /\ ~key_50ms[k]))
        /\ UNCHANGED <<intr, key_level, key_5s, key_50ms, at, pressed>>

\* key_intr_handler, up to the clearing of the status.
Interrupt(k) ==
    /\ status[k] /\ at[k] = "none"
    /\ intr' = Set(intr, k, "DISABLE")
    /\ status' = Set(status, k, FALSE)
    /\ at' = Set(at, k, "served")
    /\ UNCHANGED <<pin, key_level, key_5s, key_50ms, pressed, missed>>

\* The rest of key_intr_handler: the key went down, ...
Down(k) ==
    /\ at[k] = "served" /\ key_level[k] = 1
    /\ key_5s' = Set(key_5s, k, TRUE)
    /\ key_level' = Set(key_level, k, 0)
    /\ intr' = Set(intr, k, "POSEDGE")
    /\ at' = Set(at, k, "none")
    /\ UNCHANGED <<pin, status, key_50ms, pressed, missed>>

\* ... or up, or its contacts bounce.
Up(k) ==
    /\ at[k] = "served" /\ key_level[k] # 1
    /\ key_50ms' = Set(key_50ms, k, TRUE)
    /\ at' = Set(at, k, "none")
    /\ UNCHANGED <<pin, intr, status, key_level, key_5s, pressed, missed>>

\* key_50ms_cb, up to the reading of the pin.
Look(k) ==
    /\ key_50ms[k] /\ at[k] = "none"
    /\ key_50ms' = Set(key_50ms, k, FALSE)
    /\ at' = Set(at, k, IF pin[k] = 1 THEN "high" ELSE "low")
    /\ missed' = Set(missed, k, FALSE)
    /\ UNCHANGED <<pin, intr, status, key_level, key_5s, pressed>>

\* Slip: the interrupt goes on waiting for the key to come up.
key_50ms_cb_high_SameEdge(k) ==
    /\ at[k] = "high"
    /\ key_5s' = Set(key_5s, k, FALSE)
    /\ key_level' = Set(key_level, k, 1)
    /\ intr' = Set(intr, k, "POSEDGE")
    /\ pressed' = Set(pressed, k, "short")
    /\ at' = Set(at, k, "none")
    /\ UNCHANGED <<pin, status, key_50ms, missed>>

\* The rest of key_50ms_cb: the key is up, ...
key_50ms_cb_high(k) ==
    /\ at[k] = "high"
    /\ key_5s' = Set(key_5s, k, FALSE)
    /\ key_level' = Set(key_level, k, 1)
    /\ intr' = Set(intr, k, "NEGEDGE")
    /\ pressed' = Set(pressed, k, "short")
    /\ at' = Set(at, k, "none")
    /\ UNCHANGED <<pin, status, key_50ms, missed>>

\* Slip: a bounce does not wait for the key again.
key_50ms_cb_low_NoEdge(k) ==
    /\ at[k] = "low"
    /\ at' = Set(at, k, "none")
    /\ UNCHANGED <<pin, intr, status, key_level, key_5s, key_50ms, pressed, missed>>

\* ... or it was a bounce.
key_50ms_cb_low(k) ==
    /\ at[k] = "low"
    /\ intr' = Set(intr, k, "POSEDGE")
    /\ at' = Set(at, k, "none")
    /\ UNCHANGED <<pin, status, key_level, key_5s, key_50ms, pressed, missed>>

key_5s_cb(k) ==
    /\ key_5s[k]
    /\ key_5s' = Set(key_5s, k, FALSE)
    /\ pressed' = IF pin[k] = 0 THEN Set(pressed, k, "long") ELSE pressed
    /\ UNCHANGED <<pin, intr, status, key_level, key_50ms, at, missed>>

Driver(k) ==
    \/ Interrupt(k) \/ Down(k) \/ Up(k)
    \/ Look(k) \/ key_50ms_cb_high(k) \/ key_50ms_cb_low(k) \/ key_5s_cb(k)

KeyNext == \E k \in Keys : Edge(k) \/ Driver(k)

KeySpec == KeyInit /\ [][KeyNext]_keyVars

\* Interrupts are taken, handlers end and timers expire.
KeyFairness == \A k \in Keys : WF_keyVars(Driver(k)) /\ WF_keyVars(Look(k))

KeyFairSpec == KeySpec /\ KeyFairness

---------------------------------------------------------------------------
(* Properties.                                                             *)

\* The ranges of the variables.
KeyTypeOK ==
    /\ pin \in [Keys -> {0, 1}] /\ key_level \in [Keys -> {0, 1}]
    /\ intr \in [Keys -> Edges] /\ status \in [Keys -> BOOLEAN]
    /\ key_5s \in [Keys -> BOOLEAN] /\ key_50ms \in [Keys -> BOOLEAN]
    /\ at \in [Keys -> Places] /\ pressed \in [Keys -> Calls] /\ missed \in [Keys -> BOOLEAN]

\* A key is never left alone: while no handler works on it, the interrupt waits
\* for the edge away from the level the driver takes it to have, or the timer of
\* 50 ms will look at it.  The timer of 5 s runs for a key that went down only.
NeverAlone ==
    \A k \in Keys :
        /\ at[k] = "none" =>
              IF key_50ms[k] THEN intr[k] = "DISABLE" /\ key_level[k] = 0
              ELSE intr[k] = IF key_level[k] = 1 THEN "NEGEDGE" ELSE "POSEDGE"
        /\ at[k] # "none" => intr[k] = "DISABLE" /\ ~key_50ms[k]
        /\ at[k] \in {"high", "low"} => key_level[k] = 0
        /\ status[k] => at[k] = "none" /\ ~key_50ms[k]
        /\ key_5s[k] => key_level[k] = 0

\* If no edge was missed, the driver takes the key to be down exactly while it
\* is, but for what the interrupt or the timer is still going to tell it.
KnowsTheLevel ==
    \A k \in Keys :
        ~missed[k] /\ at[k] = "none" /\ ~status[k] /\ ~key_50ms[k] => key_level[k] = pin[k]

\* Both together: every key has somebody who is going to look at it, and what the
\* driver makes of the key is right but for what it missed.
KeyWatched == NeverAlone /\ KnowsTheLevel

\* A press ends: a key that came up again, without an edge that nothing waited
\* for, is taken to be up in the end, and short_press was called.
PressEnds ==
    \A k \in Keys :
        key_level[k] = 0 ~> \/ key_level[k] = 1 /\ pressed[k] = "short"
                            \/ pin[k] = 0 \/ missed[k]
====
