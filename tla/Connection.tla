------------------------------ MODULE Connection ------------------------------
(***************************************************************************)
(* Connection and identity handles: blpConnect(), blpAuthenticate(), the   *)
(* defaults in .pkgenv, .onAttach(), and the C++ objects behind them.      *)
(*                                                                         *)
(* A C++ object (a blpapi Session or Identity) is held by an R external    *)
(* pointer, its handle, whose finalizer deletes it.  R runs a finalizer    *)
(* once it finds the handle unreachable, and all of them when the process  *)
(* ends.  A call keeps its handles reachable as its arguments, but works   *)
(* with the raw pointers it read from them at its start; a callback of     *)
(* subscribe() may run any of these functions in the middle of it.         *)
(***************************************************************************)
EXTENDS Integers, Sequences, FiniteSets

CONSTANTS
  MaxObjs,     \* bound: C++ objects
  MaxHandles,  \* bound: handles
  MaxDepth     \* bound: nested calls

ASSUME ConnectionAssumption == {MaxObjs, MaxHandles, MaxDepth} \subseteq Nat

VARIABLES
  objs,      \* the C++ objects ever allocated
  handles,   \* the external pointers ever made
  held,      \* handles in variables of the user
  con,       \* .pkgenv$con, 0 for NULL
  blpAuth,   \* .pkgenv$blpAuth, 0 for NULL
  stack,     \* the running calls, the innermost last
  attached,  \* library(Rblpapi) has run
  running,   \* FALSE once the R process is ending
  lost       \* history: objects of a start or an authorization that failed

vars == <<objs, handles, held, con, blpAuth, stack, attached, running, lost>>

Kinds == {"Session", "Identity"}
Obj == [kind: Kinds, of: Nat, live: BOOLEAN]      \* of: the session of an identity
Handle == [tag: Kinds, addr: Nat, final: BOOLEAN] \* addr: 0 for NULL
                                                  \* final: a finalizer is registered
Frame == [op: {"call", "connect", "auth", "assign"},  \* a call, or where .onAttach is
          con: Nat, id: Nat,                      \* its handles, 0 for NULL
          session: Nat, identity: Nat]            \* the raw pointers, 0 for NULL

HandleOrNull == 0 .. Len(handles)

TypeOK ==
  /\ objs \in Seq(Obj) /\ handles \in Seq(Handle) /\ stack \in Seq(Frame)
  /\ held \subseteq DOMAIN handles
  /\ con \in HandleOrNull /\ blpAuth \in HandleOrNull
  /\ con # 0 => handles[con].tag = "Session"
  /\ blpAuth # 0 => handles[blpAuth].tag = "Identity"
  /\ \A i \in DOMAIN stack : stack[i].con \in HandleOrNull /\ stack[i].id \in HandleOrNull
  /\ attached \in BOOLEAN /\ running \in BOOLEAN
  /\ lost \subseteq DOMAIN objs

Init ==
  /\ objs = <<>> /\ handles = <<>> /\ held = {} /\ con = 0 /\ blpAuth = 0
  /\ stack = <<>> /\ attached = FALSE /\ running = TRUE /\ lost = {}

Top == stack[Len(stack)]
SetTop(f) == stack' = [stack EXCEPT ![Len(stack)] = f]
Return == stack' = SubSeq(stack, 1, Len(stack) - 1)

\* the user's code runs: at the prompt or in the callback of a call
InR == running /\ (stack # <<>> => Top.op = "call")

\* mutant: a call does not keep its arguments
ReachableGlobals == (held \cup {con, blpAuth}) \ {0}

\* what the garbage collector finds: variables, .pkgenv, arguments and locals
Reachable ==
  (held \cup {con, blpAuth} \cup UNION {{stack[i].con, stack[i].id} : i \in DOMAIN stack}) \ {0}

-----------------------------------------------------------------------------
(* Making and checking handles.                                            *)

\* checkExternalPointer() returns the address; any other handle raises
CheckPointer(h, tag) == h # 0 /\ handles[h].tag = tag /\ handles[h].addr # 0

\* mutant: no finalizer is registered
NewHandleUnregistered(kind) ==
  handles' = Append(handles, [tag |-> kind, addr |-> Len(objs'), final |-> FALSE])

\* createExternalPointer(): the newest handle, for the newest object
NewHandle(kind) ==
  handles' = Append(handles, [tag |-> kind, addr |-> Len(objs'), final |-> TRUE])

Room == Len(objs) < MaxObjs /\ Len(handles) < MaxHandles

\* blpConnect_Impl() with a session that starts
Start ==
  /\ Room
  /\ objs' = Append(objs, [kind |-> "Session", of |-> 0, live |-> TRUE])
  /\ NewHandle("Session") /\ UNCHANGED lost

\* authenticate_Impl() on the connection h, accepted
Authorize(h) ==
  /\ Room /\ CheckPointer(h, "Session")
  /\ objs' = Append(objs, [kind |-> "Identity", of |-> handles[h].addr, live |-> TRUE])
  /\ NewHandle("Identity") /\ UNCHANGED lost

\* the object was allocated, then the code stops: nothing points to it
Lose(kind, of) ==
  /\ Len(objs) < MaxObjs
  /\ objs' = Append(objs, [kind |-> kind, of |-> of, live |-> TRUE])
  /\ lost' = lost \cup {Len(objs) + 1}
  /\ UNCHANGED handles

-----------------------------------------------------------------------------
(* The user's functions.  A function that stores its result as the default *)
(* also returns it (the value of an assignment), so the user may keep it.  *)

\* mutant: an open connection of the user's is taken instead of a new one
BlpConnectReusing(default) ==
  /\ InR
  /\ \/ /\ Start /\ con' = IF default THEN Len(handles') ELSE con
     \/ /\ \E h \in held : CheckPointer(h, "Session") /\ con' = h
        /\ UNCHANGED <<objs, handles, lost>>
  /\ UNCHANGED <<held, blpAuth, stack, attached, running>>

BlpConnect(default) ==
  /\ InR
  /\ \/ /\ Start
        /\ con' = IF default THEN Len(handles') ELSE con
        /\ \/ held' = held
           \/ held' = held \cup {Len(handles')}
     \/ Lose("Session", 0) /\ UNCHANGED <<con, held>>
  /\ UNCHANGED <<blpAuth, stack, attached, running>>

\* mutant: the identity is stored in the place of the connection
BlpAuthenticateSwapped(h, default) ==
  /\ InR
  /\ \/ /\ Authorize(h)
        /\ con' = IF default THEN Len(handles') ELSE con
        /\ UNCHANGED <<held, blpAuth>>
     \/ /\ CheckPointer(h, "Session") /\ Lose("Identity", handles[h].addr)
        /\ UNCHANGED <<con, blpAuth, held>>
  /\ UNCHANGED <<stack, attached, running>>

BlpAuthenticate(h, default) ==
  /\ InR
  /\ \/ /\ Authorize(h)
        /\ blpAuth' = IF default THEN Len(handles') ELSE blpAuth
        /\ \/ held' = held
           \/ held' = held \cup {Len(handles')}
     \/ /\ CheckPointer(h, "Session") /\ Lose("Identity", handles[h].addr)
        /\ UNCHANGED <<blpAuth, held>>
  /\ UNCHANGED <<con, stack, attached, running>>

\* an accessor or subscribe(): its handles are checked, its pointers read
Call(h, id) ==
  /\ InR /\ Len(stack) < MaxDepth
  /\ CheckPointer(h, "Session")
  /\ id # 0 => CheckPointer(id, "Identity")
  /\ stack' = Append(stack, [op |-> "call", con |-> h, id |-> id, session |-> handles[h].addr,
                             identity |-> IF id = 0 THEN 0 ELSE handles[id].addr])
  /\ UNCHANGED <<objs, handles, held, con, blpAuth, attached, running, lost>>

CallEnds ==
  /\ InR /\ stack # <<>> /\ Return
  /\ UNCHANGED <<objs, handles, held, con, blpAuth, attached, running, lost>>

\* the user drops a variable, or copies a default into one
Drop(h) ==
  /\ InR /\ h \in held /\ held' = held \ {h}
  /\ UNCHANGED <<objs, handles, con, blpAuth, stack, attached, running, lost>>

Keep(h) ==
  /\ InR /\ h # 0 /\ h \notin held /\ held' = held \cup {h}
  /\ UNCHANGED <<objs, handles, con, blpAuth, stack, attached, running, lost>>

\* a handle saved with the workspace and read back has no address and no
\* finalizer (external: R)
Restore(h) ==
  /\ InR /\ Len(handles) < MaxHandles
  /\ handles' = Append(handles, [tag |-> handles[h].tag, addr |-> 0, final |-> FALSE])
  /\ held' = held \cup {Len(handles')}
  /\ UNCHANGED <<objs, con, blpAuth, stack, attached, running, lost>>

-----------------------------------------------------------------------------
(* .onAttach(), in three steps; each of the options may be set.            *)

Attaching(op) == stack # <<>> /\ Top.op = op

Attach ==
  /\ InR /\ ~attached /\ Len(stack) < MaxDepth
  /\ stack' = Append(stack, [op |-> "connect", con |-> 0, id |-> 0, session |-> 0, identity |-> 0])
  /\ UNCHANGED <<objs, handles, held, con, blpAuth, attached, running, lost>>

\* if (getOption("blpAutoConnect")) con <- blpConnect() else con <- NULL
AttachConnect ==
  /\ Attaching("connect")
  /\ \/ /\ Start /\ con' = Len(handles')
        /\ SetTop([Top EXCEPT !.op = "auth", !.con = Len(handles')])
     \/ /\ SetTop([Top EXCEPT !.op = "auth"])
        /\ UNCHANGED <<objs, handles, lost, con>>
     \/ Lose("Session", 0) /\ Return /\ UNCHANGED con
  /\ UNCHANGED <<held, blpAuth, attached, running>>

\* the same for blpAutoAuthenticate and blpAuth; the default connection has to
\* be there
AttachAuth ==
  /\ Attaching("auth")
  /\ \/ /\ Authorize(con) /\ blpAuth' = Len(handles')
        /\ SetTop([Top EXCEPT !.op = "assign", !.id = Len(handles')])
     \/ /\ SetTop([Top EXCEPT !.op = "assign"])
        /\ UNCHANGED <<objs, handles, lost, blpAuth>>
     \/ CheckPointer(con, "Session") /\ Lose("Identity", handles[con].addr) /\ Return /\ UNCHANGED blpAuth
     \/ ~CheckPointer(con, "Session") /\ Return /\ UNCHANGED <<objs, handles, lost, blpAuth>>
  /\ UNCHANGED <<held, con, attached, running>>

\* mutant: an identity that was not asked for is kept
AttachAssignCon ==
  /\ Attaching("assign")
  /\ con' = Top.con
  /\ blpAuth' = IF Top.id = 0 THEN blpAuth ELSE Top.id
  /\ attached' = TRUE /\ Return
  /\ UNCHANGED <<objs, handles, held, running, lost>>

\* both locals are assigned to the defaults, NULL or not
AttachAssign ==
  /\ Attaching("assign")
  /\ con' = Top.con /\ blpAuth' = Top.id
  /\ attached' = TRUE /\ Return
  /\ UNCHANGED <<objs, handles, held, running, lost>>

\* detach() leaves the namespace, and .pkgenv, as they are
Detach ==
  /\ InR /\ attached /\ attached' = FALSE
  /\ UNCHANGED <<objs, handles, held, con, blpAuth, stack, running, lost>>

\* unloadNamespace() drops .pkgenv; there is no .onUnload(), so the code of
\* the finalizers stays
Unload ==
  /\ InR /\ attached' = FALSE /\ con' = 0 /\ blpAuth' = 0
  /\ UNCHANGED <<objs, handles, held, stack, running, lost>>

-----------------------------------------------------------------------------
(* R: the garbage collector, and the end of the process.                   *)

\* sessionFinalizer(), identityFinalizer(): delete, and clear the address
Delete(h) ==
  /\ objs' = [objs EXCEPT ![handles[h].addr].live = FALSE]
  /\ handles' = [handles EXCEPT ![h].addr = 0, ![h].final = FALSE]

\* mutant: finalizers are not registered to run at exit
FinalizeNotAtExit(h) ==
  /\ handles[h].final /\ running /\ h \notin Reachable
  /\ Delete(h)
  /\ UNCHANGED <<held, con, blpAuth, stack, attached, running, lost>>

Finalize(h) ==
  /\ handles[h].final
  /\ h \notin Reachable \/ ~running
  /\ Delete(h)
  /\ UNCHANGED <<held, con, blpAuth, stack, attached, running, lost>>

\* the process ends, also from a callback: no call goes on
Exit ==
  /\ running /\ running' = FALSE /\ stack' = <<>>
  /\ UNCHANGED <<objs, handles, held, con, blpAuth, attached, lost>>

-----------------------------------------------------------------------------
UserStep ==
  \/ \E default \in BOOLEAN : BlpConnect(default)
  \/ \E h \in held \cup {con}, default \in BOOLEAN : BlpAuthenticate(h, default)
  \/ \E h \in held \cup {con}, id \in held \cup {blpAuth, 0} : Call(h, id)
  \/ CallEnds
  \/ \E h \in held : Drop(h) \/ Restore(h)
  \/ Keep(con) \/ Keep(blpAuth)
  \/ Attach \/ Detach \/ Unload

AttachStep == AttachConnect \/ AttachAuth \/ AttachAssign

RStep ==
  \/ \E h \in DOMAIN handles : Finalize(h)
  \/ Exit

Next == UserStep \/ AttachStep \/ RStep

Spec == Init /\ [][Next]_vars

\* R runs the finalizers that are left when it ends
FairSpec == Spec /\ WF_vars(~running /\ \E h \in DOMAIN handles : Finalize(h))

-----------------------------------------------------------------------------
(* Properties.                                                             *)

Holders(o) == {h \in DOMAIN handles : handles[h].addr = o}

\* Every object that is live has exactly one handle, which is tagged with its
\* kind and will delete it, or is one that was lost when its start or its
\* authorization failed (blpConnect.cpp:65, authenticate.cpp:87,153); no handle
\* points to a deleted object, so nothing is deleted twice.
OneOwner ==
  \A o \in DOMAIN objs :
    IF objs[o].live /\ o \notin lost
    THEN \E h \in Holders(o) : /\ Holders(o) = {h} /\ handles[h].final
                               /\ handles[h].tag = objs[o].kind
    ELSE Holders(o) = {}

\* The raw pointers of a call point to live objects of the right kind until it
\* ends, whatever its callback does to the defaults, the variables and the
\* garbage (checkExternalPointer() is called once, at the start).
NoUseAfterFree ==
  \A i \in DOMAIN stack : stack[i].op = "call" =>
    /\ stack[i].session \in DOMAIN objs
    /\ objs[stack[i].session].live /\ objs[stack[i].session].kind = "Session"
    /\ stack[i].identity # 0 =>
         /\ stack[i].identity \in DOMAIN objs
         /\ objs[stack[i].identity].live /\ objs[stack[i].identity].kind = "Identity"

\* the default identity is of connection h
IdentityOf(h) == h # 0 /\ objs[handles[blpAuth].addr].of = handles[h].addr

\* there is a default identity, which is not of the default connection
Stale == blpAuth # 0 /\ ~IdentityOf(con)

\* Whatever was stored before, the default identity that attaching the package
\* leaves is of the connection that was the default at its end: of the one that
\* stays the default or, with blpAutoAuthenticate but not blpAutoConnect, of the
\* one it drops, so that there is an identity and no connection (init.R:35-47).
AttachFresh ==
  [][attached' /\ ~attached /\ blpAuth' # 0 =>
       /\ con # 0 /\ objs[handles[blpAuth'].addr].of = handles[con].addr
       /\ con' \in {con, 0}]_vars

\* A default identity that is not of the default connection, because another
\* was stored since or attaching dropped it, stays that way whatever connections
\* are made, dropped and collected later: only authenticating or attaching anew,
\* or unloading, replaces it (blpConnect.R:69, blpAuthenticate.R:101, init.R:46).
StaleStays == [][running' /\ blpAuth' = blpAuth /\ Stale => Stale']_vars

\* the objects that have an owner, those that were deleted, and those whose
\* raw pointers a running call holds
Owned == {o \in DOMAIN objs : objs[o].live /\ o \notin lost}
Deleted == {o \in DOMAIN objs : ~objs[o].live}
InUse ==
  (UNION {{stack[i].session, stack[i].identity} :
            i \in {j \in DOMAIN stack : stack[j].op = "call"}}) \ {0}

Life == INSTANCE ObjectLife WITH
          Objects <- 1 .. MaxObjs, owned <- Owned, freed <- Deleted, used <- InUse

\* Handles, arguments and finalizers together implement the life of the
\* objects: each is deleted at most once and never in a call that uses it, no
\* call starts with a deleted one, and after the end of the process there are
\* only deletions (finalizers.h:26, authenticate.cpp:48, blpapi_utils.cpp:53).
LifeRefinement == Life!LifeSpec

\* When the process ends every session and identity is deleted, except those
\* that were lost (finalizers.h:31: the finalizers run at exit).
ExitFreesAll == ~running ~> \A o \in DOMAIN objs : objs[o].live => o \in lost
===============================================================================
