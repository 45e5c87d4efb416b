---------------------------- MODULE ScriptEngine ----------------------------
(* The script engines: the base class ScriptEngine, its Python, Lua and      *)
(* native implementations, and the request queue through which threads other *)
(* than the owner reach the script.  The hosts that drive an engine are in   *)
(* ScriptHosts.                                                              *)
EXTENDS Naturals, Sequences, SequencesExt

CONSTANTS
    Callers,        \* the threads other than the owner
    MaxCalls        \* bound: calls per caller

VARIABLES
    kind,           \* "python", "lua" or "native"
    eng,            \* [state, accepting]
    queue,          \* request_queue_
    frames,         \* the activations of process_pending_, innermost first
    caller,         \* per thread: [pc, op, call, answer]
    children,       \* the threads with a Lua state of their own
    plugin,         \* the native library: [mapped, finalizer, touched]
    ran,            \* the requests whose function was executed
    errors          \* [seen, stops]: a script error was counted, and stops the role

engineVars == <<kind, eng, queue, frames, caller, children, plugin, ran, errors>>

Kinds == {"python", "lua", "native"}
Operations == {"invoke", "eval", "returning"}

RequestOf(t) == [from |-> t, call |-> caller[t].call, op |-> caller[t].op]

EngineInit ==
    /\ kind \in Kinds
    /\ eng = [state |-> "Unloaded", accepting |-> FALSE]
    /\ queue = <<>> /\ frames = <<>> /\ children = {} /\ ran = {}
    /\ caller = [t \in Callers |-> [pc |-> "idle", op |-> "invoke", call |-> 0, answer |-> "none"]]
    /\ plugin = [mapped |-> FALSE, finalizer |-> FALSE, touched |-> "never"]
    /\ errors \in [seen : {FALSE}, stops : BOOLEAN]

----------------------------------------------------------------------------
(* Construction, on the owner's thread.                                      *)

\* init_engine_: the interpreter module, or a new Lua state, may fail.
PythonInit == BOOLEAN

LuaInit == BOOLEAN

NativeInit == {TRUE}

Initialize(ok) ==
    /\ eng.state = "Unloaded"
    /\ ok \in CASE kind = "python" -> PythonInit [] kind = "lua" -> LuaInit [] OTHER -> NativeInit
    /\ eng' = [eng EXCEPT !.state = IF ok THEN "Initialized" ELSE @]
    /\ UNCHANGED <<kind, queue, frames, caller, children, plugin, ran, errors>>

\* The ways NativeEngine::load_script can end: the library left mapped or not,
\* and fn_finalize_ resolved or not.  A library that lacks native_init, or the
\* required callback, is unmapped with fn_finalize_ left as it was resolved.
NativeLoads ==
    [ok : {TRUE}, mapped : {TRUE}, finalizer : {TRUE}]
    \cup [ok : {FALSE}, mapped : {FALSE}, finalizer : {FALSE}]
    \cup [ok : {FALSE}, mapped : {FALSE}, finalizer : {TRUE}]

PythonLoads == [ok : BOOLEAN, mapped : {FALSE}, finalizer : {FALSE}]

LuaLoads == [ok : BOOLEAN, mapped : {FALSE}, finalizer : {FALSE}]

Loads ==
    CASE kind = "python" -> PythonLoads
      [] kind = "lua"    -> LuaLoads
      [] kind = "native" -> NativeLoads

LoadScript(ok) ==
    /\ eng.state = "Initialized"
    /\ \E l \in Loads :
          /\ l.ok = ok
          /\ plugin' = [plugin EXCEPT !.mapped = l.mapped, !.finalizer = l.finalizer]
    /\ eng' = [eng EXCEPT !.state = IF ok THEN "ScriptLoaded" ELSE @]
    /\ UNCHANGED <<kind, queue, frames, caller, children, ran, errors>>

\* build_api: the engine accepts from here on.  A refused native_init leaves
\* the library mapped.
BuildApi(ok) ==
    /\ eng.state = "ScriptLoaded"
    /\ eng' = IF ok THEN [state |-> "ApiBuilt", accepting |-> TRUE] ELSE eng
    /\ plugin' = IF kind = "native" THEN [plugin EXCEPT !.touched = "mapped"] ELSE plugin
    /\ UNCHANGED <<kind, queue, frames, caller, children, ran, errors>>

----------------------------------------------------------------------------
(* Calls from other threads.                                                 *)

Idle(t) == caller[t].pc \in {"idle", "gone"}

\* What the engine does with a call that passed its first test: queue it for
\* the owner, run it on the calling thread, or answer at once.
PythonRoute(op) == "enqueue"

LuaRoute(op) == IF op = "returning" THEN "enqueue" ELSE "script"

NativeRoute(op) == IF op = "invoke" THEN "script" ELSE "notfound"

Route(op) ==
    CASE kind = "python" -> PythonRoute(op)
      [] kind = "lua"    -> LuaRoute(op)
      [] kind = "native" -> NativeRoute(op)

\* invoke, eval and invoke_returning up to the queue.  The native engine does
\* not look at is_accepting.
CallBegins(t, op) ==
    /\ caller[t].pc = "idle" /\ caller[t].call < MaxCalls
    /\ LET open == eng.accepting \/ (kind = "native" /\ plugin.mapped)
           goes == IF open THEN Route(op) ELSE "refused"
       IN /\ caller' = [caller EXCEPT ![t] =
                [pc |-> IF goes \in {"enqueue", "script"} THEN goes ELSE "idle",
                 op |-> op, call |-> @.call + 1,
                 answer |-> CASE goes = "refused" -> "shutdown"
                              [] goes = "notfound" -> "notfound"
                              [] OTHER -> "none"]]
          /\ children' = IF goes = "script" /\ kind = "lua" THEN children \cup {t} ELSE children
          /\ plugin' = IF goes = "script" /\ kind = "native"
                       THEN [plugin EXCEPT !.touched = "mapped"] ELSE plugin
    /\ UNCHANGED <<kind, eng, queue, frames, ran, errors>>

\* Under queue_mu_ the flag is read again, then the request is queued and the
\* caller waits for its future.
Enqueue(t) ==
    /\ caller[t].pc = "enqueue"
    /\ IF eng.accepting
       THEN /\ queue' = Append(queue, RequestOf(t))
            /\ caller' = [caller EXCEPT ![t].pc = "wait"]
       ELSE /\ caller' = [caller EXCEPT ![t].pc = "idle", ![t].answer = "shutdown"]
            /\ UNCHANGED queue
    /\ UNCHANGED <<kind, eng, frames, children, plugin, ran, errors>>

\* invoke_returning with a bound: the request stays where it is.
CallTimesOut(t) ==
    /\ caller[t].pc = "wait" /\ caller[t].op = "returning"
    /\ caller' = [caller EXCEPT ![t].pc = "idle", ![t].answer = "timedout"]
    /\ UNCHANGED <<kind, eng, queue, frames, children, plugin, ran, errors>>

\* A function run on the calling thread returns: a Lua child state, or a
\* function of the native library.
ForeignReturns(t) ==
    /\ caller[t].pc = "script"
    /\ caller' = [caller EXCEPT ![t].pc = "idle", ![t].answer = "ok"]
    /\ ran' = ran \cup {RequestOf(t)}
    /\ UNCHANGED <<kind, eng, queue, frames, children, plugin, errors>>


\* set_value on the promise of request r: a caller that has given up, or has
\* gone on to another call, is not touched.
Resolved(cs, r, a) ==
    IF cs[r.from].pc = "wait" /\ cs[r.from].call = r.call
    THEN [cs EXCEPT ![r.from].pc = "idle", ![r.from].answer = a]
    ELSE cs

RECURSIVE ResolvedAll(_, _, _)
ResolvedAll(cs, rs, a) ==
    IF rs = <<>> THEN cs ELSE ResolvedAll(Resolved(cs, Head(rs), a), Tail(rs), a)

----------------------------------------------------------------------------
(* process_pending_ on the owner's thread.                                   *)

Pending(q) == IF eng.accepting /\ q # <<>> THEN <<[rest |-> q, due |-> <<>>]>> ELSE <<>>

\* Swap the queue out, unless there is nothing to do.
ProcessPending ==
    /\ frames' = Pending(queue) \o frames
    /\ queue' = IF Pending(queue) = <<>> THEN queue ELSE <<>>

\* The innermost activation executes its next request.  A Python function is
\* followed by another process_pending_ before the promise is set, an eval or
\* a Lua function is not.
Nests(r) == kind = "python" /\ r.op # "eval"

ServeNext ==
    /\ frames # <<>> /\ frames[1].due = <<>> /\ frames[1].rest # <<>>
    /\ LET r == Head(frames[1].rest)
           after == [frames EXCEPT ![1].rest = Tail(@)]
       IN IF ~eng.accepting
          THEN /\ caller' = Resolved(caller, r, "shutdown")
               /\ frames' = after /\ UNCHANGED <<queue, ran, errors>>
          ELSE \E a \in {"ok", "notfound", "error"} :
               /\ ran' = IF a = "notfound" THEN ran ELSE ran \cup {r}
               /\ errors' = [errors EXCEPT !.seen = @ \/ a = "error"]
               /\ frames' = (IF Nests(r) THEN Pending(queue) ELSE <<>>)
                            \o [after EXCEPT ![1].due = <<[request |-> r, answer |-> a]>>]
               /\ queue' = IF Nests(r) /\ Pending(queue) # <<>> THEN <<>> ELSE queue
               /\ UNCHANGED caller
    /\ UNCHANGED <<kind, eng, children, plugin>>

SetPromise ==
    /\ frames # <<>> /\ frames[1].due # <<>>
    /\ LET d == frames[1].due[1] IN caller' = Resolved(caller, d.request, d.answer)
    /\ frames' = [frames EXCEPT ![1].due = <<>>]
    /\ UNCHANGED <<kind, eng, queue, children, plugin, ran, errors>>

ActivationEnds ==
    /\ frames # <<>> /\ frames[1].due = <<>> /\ frames[1].rest = <<>>
    /\ frames' = Tail(frames)
    /\ UNCHANGED <<kind, eng, queue, caller, children, plugin, ran, errors>>

Serving == ServeNext \/ SetPromise \/ ActivationEnds

----------------------------------------------------------------------------
(* Callbacks on the owner's thread.                                          *)

\* What a callback does: returns true, false, nothing or something else, or
\* raises; or it is not defined.
Values == {"true", "false", "nothing", "other", "raises", "missing"}

\* handle_script_error_ and on_pcall_error_ count the error, and with
\* stop_on_script_error ask the role to stop.
HandleScriptError == errors' = [errors EXCEPT !.seen = TRUE]

OnPcallError == errors' = [errors EXCEPT !.seen = TRUE]

StopsOnError == errors.seen /\ errors.stops

Touch == plugin' = [plugin EXCEPT !.touched = IF plugin.mapped THEN "mapped" ELSE "unmapped"]

\* invoke_produce, invoke_consume, invoke_process, invoke_on_inbox.  Python:
\* anything but a boolean is an error, and the pending requests follow.
PythonInvoke(v) ==
    /\ IF v \in {"true", "false"} THEN UNCHANGED errors ELSE HandleScriptError
    /\ ProcessPending
    /\ UNCHANGED plugin

\* Lua: the same errors, no pending requests.
LuaInvoke(v) ==
    /\ IF v \in {"true", "false"} THEN UNCHANGED errors ELSE OnPcallError
    /\ UNCHANGED <<queue, frames, plugin>>

\* Native: a C bool; a missing callback is an error that is not counted.
NativeInvoke(v) ==
    /\ v \in {"true", "false", "missing"}
    /\ IF v = "missing" THEN UNCHANGED plugin ELSE Touch
    /\ UNCHANGED <<queue, frames, errors>>

RunCallback ==
    /\ frames = <<>> /\ eng.state = "ApiBuilt"
    /\ \E v \in Values :
          CASE kind = "python" -> PythonInvoke(v)
            [] kind = "lua"    -> LuaInvoke(v)
            [] kind = "native" -> NativeInvoke(v)
    /\ UNCHANGED <<kind, eng, caller, children, ran>>

\* invoke_on_init: nothing returned means ready, an error means not ready.
PythonOnInit(v) ==
    /\ IF v = "raises" THEN HandleScriptError ELSE UNCHANGED errors
    /\ UNCHANGED plugin

LuaOnInit(v) ==
    /\ IF v = "raises" THEN OnPcallError ELSE UNCHANGED errors
    /\ UNCHANGED plugin

NativeOnInit(v) ==
    /\ v \in {"true", "false", "missing"}
    /\ IF v = "missing" THEN UNCHANGED plugin ELSE Touch
    /\ UNCHANGED errors

Ready(v) == v \in {"true", "nothing", "missing"} \/ (kind = "lua" /\ v = "other")

RunOnInit(v) ==
    /\ frames = <<>>
    /\ CASE kind = "python" -> PythonOnInit(v)
         [] kind = "lua"    -> LuaOnInit(v)
         [] kind = "native" -> NativeOnInit(v)
    /\ UNCHANGED <<kind, eng, queue, frames, caller, children, ran>>

\* invoke_on_stop, and the callbacks of the control plane
\* (on_channel_closing, on_consumer_died, on_hub_dead, the band and allowlist
\* callbacks): the return value is ignored, no pending requests follow.
PythonNotify(v) ==
    /\ IF v = "raises" THEN HandleScriptError ELSE UNCHANGED errors
    /\ UNCHANGED plugin

LuaNotify(v) ==
    /\ IF v = "raises" THEN OnPcallError ELSE UNCHANGED errors
    /\ UNCHANGED plugin

NativeNotify(v) ==
    /\ v \in {"nothing", "missing"}
    /\ IF v = "missing" THEN UNCHANGED plugin ELSE Touch
    /\ UNCHANGED errors

RunControlCallback ==
    /\ frames = <<>>
    /\ \E v \in {"nothing", "raises", "missing"} :
          CASE kind = "python" -> PythonNotify(v)
            [] kind = "lua"    -> LuaNotify(v)
            [] kind = "native" -> NativeNotify(v)
    /\ UNCHANGED <<kind, eng, queue, frames, caller, children, ran>>

----------------------------------------------------------------------------
(* The end.                                                                  *)

StopAccepting ==
    /\ eng' = [eng EXCEPT !.accepting = FALSE]
    /\ UNCHANGED <<kind, queue, frames, caller, children, plugin, ran, errors>>

\* finalize_engine_ of Python and Lua, under queue_mu_: every queued request
\* is answered.
Cancel(cs) == ResolvedAll(cs, queue, "shutdown")

PythonFinalize == caller' = Cancel(caller) /\ queue' = <<>> /\ UNCHANGED <<children, plugin>>

\* Lua destroys the other threads' states as well.
LuaFinalize == caller' = Cancel(caller) /\ queue' = <<>> /\ children' = {} /\ UNCHANGED plugin

\* The native library: native_finalize is called through the pointer that was
\* resolved, whether or not the library is still mapped, then it is unmapped.
NativeFinalize ==
    /\ plugin' = [mapped |-> FALSE, finalizer |-> FALSE,
                  touched |-> IF ~plugin.finalizer THEN plugin.touched
                              ELSE IF plugin.mapped THEN "mapped" ELSE "unmapped"]
    /\ UNCHANGED <<queue, caller, children>>

\* finalize(): a second call does nothing.
Finalize ==
    /\ frames = <<>> /\ eng.state # "Finalized"
    /\ eng' = [state |-> "Finalized", accepting |-> FALSE]
    /\ CASE kind = "python" -> PythonFinalize
         [] kind = "lua"    -> LuaFinalize
         [] kind = "native" -> NativeFinalize
    /\ UNCHANGED <<kind, frames, ran, errors>>

\* The destructor: Python and Lua finalize; the native one calls the library
\* only while it is mapped.
NativeDestroyed ==
    IF plugin.mapped THEN [mapped |-> FALSE, finalizer |-> FALSE, touched |-> "mapped"] ELSE plugin

Destroy ==
    /\ frames = <<>>
    /\ eng' = [state |-> "Finalized", accepting |-> FALSE]
    /\ CASE kind = "native" -> plugin' = NativeDestroyed /\ UNCHANGED <<queue, caller, children>>
         [] kind # "native" /\ eng.state = "Finalized" -> UNCHANGED <<queue, caller, children, plugin>>
         [] kind = "python" /\ eng.state # "Finalized" -> PythonFinalize
         [] kind = "lua" /\ eng.state # "Finalized" -> LuaFinalize
    /\ UNCHANGED <<kind, frames, ran, errors>>
=============================================================================
