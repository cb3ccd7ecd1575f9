----------------------------- MODULE EsignCalls -----------------------------
(***************************************************************************)
(* What the modules on e-signatures share: functions that run, the bucket of   *)
(* files, uploads that nobody awaits, and what is remembered of what went      *)
(* wrong (integrations/esignature/src/esignature.service.ts).                   *)
(*                                                                         *)
(* call      the functions that run: operation, next step, what they read     *)
(* stored    the objects of the bucket: pairs of a key and what is known of it *)
(* uploads   what was started and is not awaited                              *)
(* happened  history, read by properties only: pairs of an event and what it   *)
(*           concerns                                                        *)
(***************************************************************************)
EXTENDS Integers, FiniteSets

CONSTANTS
    Calls,          \* functions that run: 1 .. n, numbered as they are started
    MaxTrouble,     \* bounds lost calls, failing functions, repeated events, and calls that
                    \* start beside another
    None

ASSUME CallsAssumption == Calls = 1 .. Cardinality(Calls)

VARIABLES call, stored, uploads, happened, trouble

Goto(c, step) == call' = [call EXCEPT ![c].pc = step]
At(c, op, step) == call[c].op = op /\ call[c].pc = step
Active(c) == call[c].op # None
First(c) ==
    /\ call[c].pc = "idle"
    /\ \A d \in 1 .. c - 1 : call[d].pc # "idle"

Object(key) == {o \in stored : o[1] = key}
Put(key, content) == stored' = (stored \ Object(key)) \cup {<<key, content>>}

Note(event, concerned) == happened' = happened \cup ({event} \X concerned)
Had(event, x) == <<event, x>> \in happened

Trouble ==
    /\ trouble < MaxTrouble
    /\ trouble' = trouble + 1
=============================================================================
