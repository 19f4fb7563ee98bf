--------------------------- MODULE ProtocolFinder ---------------------------
(***************************************************************************)
(* ProtocolFinder.m: observers registered per protocol in arrays of weak    *)
(* pointers that only blocks of one serial queue touch.  registerObj and    *)
(* removeObj submit their block and return (dispatch_async); findObjFor-    *)
(* Protocol waits for its block (dispatch_sync).  A submitted block keeps   *)
(* its object alive, and so does an array that was returned.                *)
(*                                                                          *)
(* Objects are compared by identity (NSObject's isEqual:).  A thread in the *)
(* middle of execute may register and remove objects (an observer that      *)
(* unregisters itself), it makes no second inquiry.                         *)
(***************************************************************************)
EXTENDS PointerArray, SequencesExt, Naturals

CONSTANTS
    Objs,        \* the objects that may be registered
    Protocols,   \* the protocols they are registered for
    Threads,     \* the threads that call the finder
    MaxQueue     \* bound on the blocks that wait in the queue

ASSUME MaxQueueAssumption == MaxQueue \in Nat

VARIABLES
    held,        \* objects something other than the finder refers to
    objArray,    \* objRegistrationDic: protocol -> array of weak pointers
    queue,       \* protocol_finder_queue(): the blocks not executed yet
    call         \* thread -> the inquiry it is in

finderVars == <<held, objArray, queue, call>>

Block == [kind : {"register", "remove"}, obj : Objs, protocols : SUBSET Protocols]
         \cup [kind : {"find"}, thread : Threads, protocol : Protocols]

NoCall == [state |-> "idle", objs |-> << >>]

TypeOK ==
    /\ held \subseteq Objs
    /\ objArray \in [Protocols -> Seq(Objs)]
    /\ queue \in Seq(Block) /\ Len(queue) <= MaxQueue
    /\ call \in [Threads -> [state : {"idle", "waiting", "running"}, objs : Seq(Objs)]]

(* What a block of the queue, or the array a thread got, keeps alive.       *)
RetainedByBlock(b) == IF b.kind = "find" THEN {} ELSE {b.obj}
Alive ==
    held \cup (UNION {RetainedByBlock(queue[i]) : i \in DOMAIN queue})
         \cup (UNION {ToSet(call[t].objs) : t \in Threads})

Init ==
    /\ held = Objs
    /\ objArray = [p \in Protocols |-> << >>]
    /\ queue = << >>
    /\ call = [t \in Threads |-> NoCall]

-----------------------------------------------------------------------------
(* objArrayForProtocol: pointers to objects that died are dropped.          *)
LiveObjs(array) == Only(Alive, array)

(* Mutant: the object is added without a look at the array. *)
AddObj_Always(array, o) == Append(array, o)

(* The block of registerObj for one protocol. *)
AddObj(array, o) == IF Contains(array, o) THEN array ELSE Append(array, o)

(* The block of removeObj for one protocol: the first pointer equal to obj. *)
DropObj(array, o) == RemoveFirst(array, o)

(* What a register or remove block makes of one protocol's array.           *)
AfterBlock(array, b, p) ==
    IF b.kind = "register" /\ p \in b.protocols THEN AddObj(array, b.obj)
    ELSE IF b.kind = "remove" /\ p \in b.protocols THEN DropObj(array, b.obj)
    ELSE array

(* dispatch_async / dispatch_sync on the serial queue.                      *)
Submit(b) == Len(queue) < MaxQueue /\ queue' = Append(queue, b)

(* What a thread can name in a call: an object that is held, or one that    *)
(* its inquiry has returned and it has not been through yet.                *)
Known(t) == held \cup ToSet(call[t].objs)

registerObj(t, o, ps) ==
    /\ call[t].state # "waiting"
    /\ o \in Known(t) /\ ps # {}
    /\ Submit([kind |-> "register", obj |-> o, protocols |-> ps])
    /\ UNCHANGED <<held, objArray, call>>

removeObj(t, o, ps) ==
    /\ call[t].state # "waiting"
    /\ o \in Known(t) /\ ps # {}
    /\ Submit([kind |-> "remove", obj |-> o, protocols |-> ps])
    /\ UNCHANGED <<held, objArray, call>>

findObjForProtocol(t, p) ==
    /\ call[t].state = "idle"
    /\ Submit([kind |-> "find", thread |-> t, protocol |-> p])
    /\ call' = [call EXCEPT ![t].state = "waiting"]
    /\ UNCHANGED <<held, objArray>>

(* The block of findObjForProtocol: a copy of the array's live objects.     *)
ServeFind(b) ==
    [call EXCEPT ![b.thread] = [state |-> "running",
                                objs |-> LiveObjs(objArray[b.protocol])]]

(* What the execution of a block does.                                     *)
RunBlock(b) ==
    IF b.kind = "find"
    THEN /\ objArray' = [objArray EXCEPT ![b.protocol] = LiveObjs(@)]
         /\ call' = ServeFind(b)
    ELSE /\ objArray' = [p \in Protocols |->
                 IF p \in b.protocols
                 THEN AfterBlock(LiveObjs(objArray[p]), b, p)
                 ELSE objArray[p]]
         /\ UNCHANGED call

(* The serial queue executes the block submitted first.                     *)
Serve ==
    /\ queue # << >>
    /\ queue' = Tail(queue)
    /\ UNCHANGED held
    /\ RunBlock(Head(queue))

(* execute: the run block is called for the next object of the copy, if it  *)
(* responds to the selector.                                                *)
execute(t) ==
    /\ call[t].state = "running" /\ call[t].objs # << >>
    /\ call' = [call EXCEPT ![t].objs = Tail(@)]
    /\ UNCHANGED <<held, objArray, queue>>

(* The end of execute, or of a plain find or findLastestObjForProtocol      *)
(* whose caller lets go of the array.                                       *)
Return(t) ==
    /\ call[t].state = "running"
    /\ call' = [call EXCEPT ![t] = NoCall]
    /\ UNCHANGED <<held, objArray, queue>>

(* The last reference outside the finder goes away. *)
Release(o) ==
    /\ o \in held
    /\ held' = held \ {o}
    /\ UNCHANGED <<objArray, queue, call>>

Call(t) ==
    \/ \E o \in Objs, ps \in SUBSET Protocols : registerObj(t, o, ps) \/ removeObj(t, o, ps)
    \/ \E p \in Protocols : findObjForProtocol(t, p)

Next ==
    \/ \E t \in Threads : Call(t) \/ execute(t) \/ Return(t)
    \/ \E o \in Objs : Release(o)
    \/ Serve

Spec == Init /\ [][Next]_finderVars

-----------------------------------------------------------------------------
(* Refinement: the registry is the arrays with every submitted block        *)
(* applied; an inquiry in the queue has seen the blocks before it.          *)
Applied(array, blocks, p) ==
    LET after[i \in 0..Len(blocks)] ==
            IF i = 0 THEN array ELSE AfterBlock(after[i - 1], blocks[i], p)
    IN  after[Len(blocks)]

Registered(p, blocks) == Applied(LiveObjs(objArray[p]), blocks, p)

Asks(t, i) == queue[i].kind = "find" /\ queue[i].thread = t

Seen(t) ==
    IF call[t].state = "waiting"
    THEN LET i == CHOOSE i \in DOMAIN queue : Asks(t, i)
         IN  [state |-> "asking",
              objs |-> Registered(queue[i].protocol, SubSeq(queue, 1, i - 1))]
    ELSE [state |-> IF call[t].state = "running" THEN "telling" ELSE "idle",
          objs |-> call[t].objs]

Registry == INSTANCE ObserverRegistry WITH
    live <- Alive,
    reg <- [p \in Protocols |-> Registered(p, queue)],
    view <- [t \in Threads |-> Seen(t)]

(* The finder is a registry whose registrations and removals take effect at *)
(* the call, although they are carried out later, and whose objects may die *)
(* at any time: what execute goes through was registered before the inquiry *)
(* and not removed before it, in order, once, and alive.                    *)
IsRegistry == Registry!Spec
=============================================================================
