-------------------------- MODULE ObserverRegistry --------------------------
(***************************************************************************)
(* What a registry of observers promises, without threads or queues: a      *)
(* registration and a removal take effect at the call, an inquiry sees      *)
(* everything that was asked for before it, in the order of registration,   *)
(* every observer once.  Observers are not kept alive by being registered;  *)
(* one that dies disappears, but not while it is being told something.      *)
(***************************************************************************)
EXTENDS PointerArray, SequencesExt

CONSTANTS Objs, Protocols, Threads

VARIABLES
    live,   \* observers that exist
    reg,    \* protocol -> its observers, oldest first
    view    \* thread -> what its inquiry saw and has not been through yet

registryVars == <<live, reg, view>>

Idle == [state |-> "idle", objs |-> << >>]

Init ==
    /\ live = Objs
    /\ reg = [p \in Protocols |-> << >>]
    /\ view = [t \in Threads |-> Idle]

(* A step makes `newReg' and `newView' of the registry; observers may die   *)
(* in it, except those a thread is going through after it.                  *)
Step(newReg, newView) ==
    LET still == live'
    IN  /\ still \subseteq live
        /\ \A t \in Threads :
              newView[t].state = "telling" => ToSet(newView[t].objs) \subseteq still
        /\ view' = [t \in Threads |-> [newView[t] EXCEPT !.objs = Only(still, @)]]
        /\ reg' = [p \in Protocols |-> Only(still, newReg[p])]

Register(o, ps) ==
    /\ o \in live
    /\ Step([p \in Protocols |-> IF p \in ps /\ ~Contains(reg[p], o)
                                 THEN Append(reg[p], o) ELSE reg[p]], view)

Unregister(o, ps) ==
    /\ o \in live
    /\ Step([p \in Protocols |-> IF p \in ps THEN Only(Objs \ {o}, reg[p]) ELSE reg[p]],
            view)

Ask(t, p) ==
    /\ view[t] = Idle
    /\ Step(reg, [view EXCEPT ![t] = [state |-> "asking", objs |-> reg[p]]])

Answer(t) ==
    /\ view[t].state = "asking"
    /\ Step(reg, [view EXCEPT ![t].state = "telling"])

Tell(t) ==
    /\ view[t].state = "telling" /\ view[t].objs # << >>
    /\ Step(reg, [view EXCEPT ![t].objs = Tail(@)])

Done(t) ==
    /\ view[t].state = "telling"
    /\ Step(reg, [view EXCEPT ![t] = Idle])

Die == Step(reg, view)

Next ==
    \/ \E o \in Objs, ps \in SUBSET Protocols : Register(o, ps) \/ Unregister(o, ps)
    \/ \E t \in Threads : Answer(t) \/ Tell(t) \/ Done(t) \/ \E p \in Protocols : Ask(t, p)
    \/ Die

Spec == Init /\ [][Next]_registryVars
=============================================================================
