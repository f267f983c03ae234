---------------------------- MODULE EntityQueries ----------------------------
(***************************************************************************)
(* Requests that work on the game's Lua stack: the entity queries          *)
(* (src/source/entity_query.hpp) and, in src/source/basic_server.hpp,      *)
(* invoke_gluals_function and command_request.                             *)
(*                                                                         *)
(* Every helper pushes and pops by hand, calls into Lua, where anything    *)
(* may be missing, of another type or raise, and leaves early by a return  *)
(* or an exception.  A helper is an operator from the run so far to the    *)
(* set of runs it may end in; a run records the stack as what each slot    *)
(* was pushed for, and how the helper left.                                *)
(***************************************************************************)
EXTENDS Integers, Sequences, FiniteSets

CONSTANTS
    MaxDepth,    \* slots the caller of a request has on the stack: 0..MaxDepth
    LUA_MINSTACK \* slots Lua grants a C function beyond its arguments: 20 in lua.h

ASSUME ConstantsAssumption == MaxDepth \in Nat /\ LUA_MINSTACK \in Nat /\ LUA_MINSTACK >= 20

VARIABLES
    stack,   \* the game's Lua stack between two requests
    chunks,  \* field-access chunks the registry holds: get_field, set_field
    last     \* the last request: its reply, and what the run of it recorded

vars == <<stack, chunks, last>>

-----------------------------------------------------------------------------
(* Runs and the calls of ILuaBase.                                         *)

\* how: "go", TRUE or done; "no", FALSE; "thrown", a C++ exception; "raised", a Lua
\* error that unwinds native frames.  A call is bad that finds other slots than it
\* was meant for; peak and low are the extremes of the stack, above what it held at
\* the start, base; done counts setters that returned.
StartRun(st) ==
    [st |-> st, base |-> Len(st), how |-> "go", bad |-> FALSE, peak |-> 0, low |-> 0,
     done |-> 0, chunks |-> chunks]

End(r, how) == [r EXCEPT !.how = how]

Push(r, x) ==
    LET height == Len(r.st) + 1 - r.base
    IN [r EXCEPT !.st = Append(@, x), !.peak = IF height > @ THEN height ELSE @]

Pop(r, n) ==
    LET height == Len(r.st) - n - r.base
    IN [r EXCEPT !.st = SubSeq(@, 1, Len(@) - n), !.low = IF height < @ THEN height ELSE @]

\* Remove(-2).
RemoveSecond(r) ==
    [r EXCEPT !.st = Append(SubSeq(@, 1, Len(@) - 2), @[Len(@)])]

Top(r) == r.st[Len(r.st)]
Is(r, x) == Len(r.st) > 0 /\ Top(r) = x

\* What C++ does next, after runs that may continue; after a FALSE too; and a catch
\* that makes FALSE of an exception.
Then(runs, F(_)) ==
    {r \in runs : r.how # "go"} \cup UNION {F(r) : r \in {s \in runs : s.how = "go"}}
Regardless(runs) == {IF r.how = "no" THEN End(r, "go") ELSE r : r \in runs}
Caught(runs) == {IF r.how = "thrown" THEN End(r, "no") ELSE r : r \in runs}

\* GetField on a table of the game's: one of the values, or its __index raises.
GetField(r, values) == {End(r, "raised")} \cup {Push(r, v) : v \in values}

\* The slots a PCall of want, a function and its arguments, finds; something that
\* is no function is called too, and only errs.
Meets(st, want) ==
    LET below == Len(st) - Len(want)
    IN /\ below >= 0
       /\ st[below + 1] \in {want[1], "other"}
       /\ \A k \in 2..Len(want) : st[below + k] = want[k]

\* PCall, its results the values given, one slot each.
PCall(r, want, returns) ==
    LET after == [r EXCEPT !.st = SubSeq(@, 1, Len(@) - Len(want)),
                           !.bad = @ \/ ~Meets(r.st, want)]
        callable == Meets(r.st, want) /\ r.st[Len(r.st) - Len(want) + 1] # "other"
    IN {End(Push(after, "error"), "erred")}
         \cup IF callable THEN {[after EXCEPT !.st = @ \o v] : v \in returns} ELSE {}

\* pcall_checked: an error's message is popped and thrown.
PCallChecked(r, want, returns) ==
    {IF s.how = "erred" THEN End(Pop(s, 1), "thrown") ELSE s : s \in PCall(r, want, returns)}

One(values) == {<<v>> : v \in values}

\* A setter that returns has set the value; one that raises is taken not to have.
CallSetter(r, want) ==
    {IF s.how = "go" THEN [s EXCEPT !.done = @ + 1] ELSE s :
        s \in PCallChecked(r, want, {<<>>})}

-----------------------------------------------------------------------------
(* EntityQuery's helpers.                                                  *)

\* The table under the chunk goes.
DropBelow(r) == {RemoveSecond(r)}

\* push_registry_chunk; a chunk that is not there yet is compiled, if
\* CompileString does what it should, and stored if it is a function.
PushRegistryChunk(r, name) ==
    LET compiled(s) == PCallChecked(Push(Push(RemoveSecond(s), "string"), "string"),
                                    <<"function", "string", "string">>, One({name, "other"}))
        store(s) == LET copied == Push(s, Top(s))
                    IN {[Pop(copied, 1) EXCEPT !.chunks =
                            IF Top(s) = name THEN @ \cup {name} ELSE @]}
        registry == Push(r, "registry")
    IN Then(IF name \in r.chunks THEN {Push(registry, name)}
            ELSE Then(Then(GetField(Push(Pop(Push(registry, "nil"), 1), "globals"),
                                    {"function", "other"}),
                           compiled),
                      store),
            DropBelow)

\* get_field_protected of the object at index at; the value is a function or not.
GetFieldProtected(r, at, object) ==
    Then(PushRegistryChunk(r, "get_field"),
         LAMBDA s : PCallChecked(Push(Push(s, s.st[at]), "string"),
                                 <<"get_field", object, "string">>, One({"function", "other"})))

\* Mutant: the value is looked for when the chunk is on top of it.
TopAfterChunk(r, s) == Len(s.st)

\* The value's index is taken before the chunk is pushed.
ValueIndex(r, s) == Len(r.st)

\* set_field_protected of the value on top; then the value is popped.
SetFieldProtected(r, at, object) ==
    Then(Then(PushRegistryChunk(r, "set_field"),
              LAMBDA s : CallSetter(Push(Push(Push(s, s.st[at]), "string"),
                                         s.st[ValueIndex(r, s)]),
                                    <<"set_field", object, "string", "value">>)),
         LAMBDA s : {Pop(s, 1)})

\* Mutant: the globals are popped too, though push_ents_table has removed them.
PopGlobalsToo(r) == Pop(r, 3)

\* ents and what stands in it for GetByIndex.
PopMethod(r) == Pop(r, 2)

\* push_ents_table and push_entity_by_index: FALSE with whatever they leave.
PushEntityByIndex(r) ==
    LET ents == Then(GetField(Push(r, "globals"), {"ents", "other"}),
                     LAMBDA s : IF Is(s, "ents") THEN {RemoveSecond(s)}
                                ELSE {End(Pop(s, 2), "no")})
        method == Then(ents, LAMBDA s : GetField(s, {"function", "other"}))
        got == Then(method, LAMBDA s : IF ~Is(s, "function") THEN {End(PopMethod(s), "no")}
                                       ELSE PCallChecked(Push(s, "number"),
                                                         <<"function", "number">>,
                                                         One({"entity", "nil", "other"})))
    IN Then(got, LAMBDA s : LET entity == RemoveSecond(s)
                            IN {IF Is(entity, "nil") THEN End(entity, "no") ELSE entity})

\* invoke_entity_method, its one result one of the values.
InvokeEntityMethod(r, at, values) ==
    IF r.st[at] \notin {"entity", "parent"} THEN {End(r, "no")}
    ELSE Then(GetFieldProtected(r, at, r.st[at]),
              LAMBDA s : IF ~Is(s, "function") THEN {End(Pop(s, 1), "no")}
                         ELSE PCallChecked(Push(s, s.st[at]), <<"function", r.st[at]>>,
                                           One(values)))

\* try_get_entity_number, _bool, _string, _vector and _angle; a Boolean stands for TRUE
\* when it is asked for as "true".
TryGet(r, at, type) ==
    Caught(Then(InvokeEntityMethod(r, at, {type, "other"}),
                LAMBDA s : {IF Is(s, type) THEN Pop(s, 1) ELSE End(Pop(s, 1), "no")}))

IsValid(r, at) == TryGet(r, at, "true")

\* stack_guard: what was pushed since is popped, but nothing is put back.
Guarded(r, runs) ==
    {IF Len(s.st) > Len(r.st) THEN [s EXCEPT !.st = SubSeq(@, 1, Len(r.st))] ELSE s :
        s \in runs}

-----------------------------------------------------------------------------
(* The queries, as they run inside the C function.                         *)

\* build_entity_summary; an entity that is not valid is asked no more.
BuildSummary(r, at) ==
    LET ask(runs, type) == Then(runs, LAMBDA s : Regardless(TryGet(s, at, type)))
        valid == Then(ask({r}, "number"), LAMBDA s : IsValid(s, at))
    IN IF r.st[at] # "entity" THEN {r}
       ELSE Regardless(ask(ask(ask(ask(valid, "string"), "string"), "vector"), "angle"))

\* GetParent and what is asked of the parent; the one Pop is the parent's, if nothing
\* was left on top of it.
AskParent(r, at) ==
    LET asked(s) == Then(IsValid(s, Len(s.st)), LAMBDA t : TryGet(t, Len(s.st), "number"))
    IN Regardless(Caught(Then(InvokeEntityMethod(r, at, {"parent", "nil", "other"}),
                              LAMBDA s : {Pop(t, 1) : t \in Regardless(
                                  IF Is(s, "parent") THEN asked(s) ELSE {s})})))

\* get_entity_detail_impl.
GetEntityDetail(r) ==
    LET at == Len(r.st) + 1
        summary(s) == BuildSummary(s, at)
        parent(s) == AskParent(s, at)
        health(s) == Regardless(TryGet(s, at, "number"))
    IN Guarded(r, Regardless(Then(Then(Then(PushEntityByIndex(r), summary), parent), health)))

\* The entity is there and valid: what the other queries begin with.
ValidEntity(r) ==
    LET at == Len(r.st) + 1
    IN Then(PushEntityByIndex(r), LAMBDA s : IsValid(s, at))

\* A method whose result has to be a table; another result is popped.
TableFrom(r, at) ==
    Then(InvokeEntityMethod(r, at, {"table", "other"}),
         LAMBDA s : {IF Is(s, "table") THEN s ELSE End(Pop(s, 1), "no")})

\* The loop over Next: Next pops the last key itself, the cap of entries leaves a key
\* to pop; then the table is popped.
Entries(r) ==
    LET iterated == Pop(Push(Push(r, "key"), "value"), 1)
    IN {Pop(Pop(Push(r, "nil"), 1), 1), Pop(Pop(iterated, 1), 1)}

\* get_entity_table_entries_impl, get_entity_network_var_entries_impl.
GetEntries(r) ==
    LET at == Len(r.st) + 1
        table == Then(ValidEntity(r), LAMBDA s : TableFrom(s, at))
    IN Guarded(r, Regardless(Then(table, Entries)))

\* push_json_primitive and push_json_value: nothing is pushed for a value they refuse.
PushJson(r) == {End(r, "no"), Push(r, "value")}

SetTableField(r) ==
    LET at == Len(r.st) + 1
        table == Then(ValidEntity(r), LAMBDA s : TableFrom(s, at))
    IN Guarded(r, Then(Then(table, PushJson),
                       LAMBDA s : SetFieldProtected(s, at + 1, "table")))

SetField(r) ==
    LET at == Len(r.st) + 1
    IN Guarded(r, Then(Then(ValidEntity(r), PushJson),
                       LAMBDA s : SetFieldProtected(s, at, "entity")))

\* The call of a setter the entity has.
CallWithValue(r) == CallSetter(r, <<"function", "entity", "value">>)

\* A value that is refused takes the entity and the setter with it.
SetNetworkVar(r) ==
    LET at == Len(r.st) + 1
        setter == Then(ValidEntity(r), LAMBDA s : GetFieldProtected(s, at, "entity"))
        json(s) == {IF t.how = "no" THEN Pop(t, 2) ELSE t : t \in PushJson(s)}
        pushed == Then(setter, LAMBDA s : IF Is(s, "function") THEN json(Push(s, "entity"))
                                          ELSE {End(Pop(s, 1), "no")})
    IN Guarded(r, Then(pushed, CallWithValue))

\* What stands in for a missing SetPos is left to the guard.
SetPos(r) ==
    LET at == Len(r.st) + 1
        setter == Then(ValidEntity(r), LAMBDA s : GetFieldProtected(s, at, "entity"))
    IN Guarded(r, Then(setter, LAMBDA s :
          IF ~Is(s, "function") THEN {End(s, "no")}
          ELSE CallWithValue(Push(Push(s, "entity"), "value"))))

\* try_invoke_entity_angle_setter.
TrySetter(r, at) ==
    Caught(Then(GetFieldProtected(r, at, "entity"),
                LAMBDA s : IF ~Is(s, "function") THEN {End(Pop(s, 1), "no")}
                           ELSE CallWithValue(Push(Push(s, "entity"), "value"))))

\* Mutant: the second setter is called whatever became of the first.
SetBothAngles(r) ==
    LET try(s) == TrySetter(s, Len(r.st) + 1)
    IN Guarded(r, Then(Regardless(Then(ValidEntity(r), try)), try))

\* SetAngles; SetEyeAngles when that is missing or raises.
SetAngles(r) ==
    LET try(s) == TrySetter(s, Len(r.st) + 1)
        again(first) == {s \in first : s.how # "no"}
                          \cup UNION {try(End(s, "go")) : s \in {t \in first : t.how = "no"}}
    IN Guarded(r, Then(ValidEntity(r), LAMBDA s : again(try(s))))

\* Only the call is caught, not the lookup of the setter.
SetHealth(r) ==
    LET at == Len(r.st) + 1
        setter == Then(ValidEntity(r), LAMBDA s : GetFieldProtected(s, at, "entity"))
    IN Guarded(r, Then(setter, LAMBDA s :
          IF ~Is(s, "function") THEN {End(Pop(s, 1), "no")}
          ELSE Caught(CallWithValue(Push(Push(s, "entity"), "value")))))

\* run_in_c_frame: the query runs in a frame of its own under PCall.  An exception
\* crosses PCall as a result and is rethrown; a Lua error's message is thrown.
Frame == StartRun(<<"userdata">>)

RunInCFrame(runs) ==
    LET left(r) == IF r.how = "raised" THEN Append(stack, "error") ELSE stack
        back(r) == [r EXCEPT !.st = left(r), !.how = IF @ = "raised" THEN "thrown" ELSE @]
    IN Guarded(StartRun(stack), {back(r) : r \in {End(Frame, "no")} \cup runs})

-----------------------------------------------------------------------------
(* Requests that use the caller's stack as it is.                          *)

\* Mutant: only what Lua returned is popped.
LeaveTables(r) == r

\* The stack is cut to the height it had.
RestoreTop(r) == [r EXCEPT !.st = SubSeq(@, 1, Len(stack))]

\* A function in a table in the globals, both of which may be something else.
PushGlobalMethod(r) ==
    LET table == GetField(Push(r, "globals"), {"table", "other"})
        method == Then(table,
                       LAMBDA s : IF Is(s, "table") THEN GetField(s, {"function", "other"})
                                  ELSE {End(s, "no")})
    IN Then(method, LAMBDA s : IF Is(s, "function") THEN {s} ELSE {End(s, "no")})

\* invoke_gluals_function: the bridge's function in _GLUALS returns a success flag and a
\* message.  It runs with one argument or two.
InvokeGluals ==
    LET failed(r) == {End(RestoreTop(r), "thrown")}
        call(r, args) == PCall([r EXCEPT !.st = @ \o args], <<"function">> \o args,
                               {<<"true", "other">>, <<"false", "other">>})
        called == Then(PushGlobalMethod(StartRun(stack)),
                       LAMBDA r : call(r, <<"string">>) \cup call(r, <<"string", "string">>))
        finish(r) == IF r.st[Len(r.st) - 1] = "true"
                       THEN {[RestoreTop(Pop(r, 2)) EXCEPT !.done = 1]}
                       ELSE failed(Pop(r, 2))
    IN UNION {CASE r.how = "no" -> failed(r)
                [] r.how = "erred" -> failed(Pop(r, 1))
                [] OTHER -> {r} : r \in Then(called, finish)}

\* console_adapter::run_command; without the engine's interface it fails.
RunConsoleFallback(r) == {[End(r, "done") EXCEPT !.done = @ + 1], End(r, "thrown")}

\* command_request: nothing for a malformed command; else through game.ConsoleCommand,
\* or through the engine when Lua will not do.
RunCommand ==
    LET start == StartRun(stack)
        fallback(r) == RunConsoleFallback(RestoreTop(r))
        called == Then(PushGlobalMethod(start),
                       LAMBDA r : PCall(Push(r, "string"), <<"function", "string">>, {<<>>}))
        finished == Then(called, LAMBDA r : {[RestoreTop(r) EXCEPT !.done = 1]})
    IN {End(start, "no")} \cup RunConsoleFallback(start)
         \cup UNION {CASE r.how = "no" -> fallback(r)
                      [] r.how = "erred" -> fallback(Pop(r, 1))
                      [] OTHER -> {r} : r \in finished}

-----------------------------------------------------------------------------
Init ==
    /\ \E depth \in 0..MaxDepth : stack = [k \in 1..depth |-> "caller"]
    /\ chunks = {}
    /\ last = [reply |-> "none", setter |-> FALSE, bad |-> FALSE,
               peak |-> 0, low |-> 0, done |-> 0]

Reply(how) ==
    CASE how \in {"go", "done"} -> "ok"
      [] how = "no" -> "refused"
      [] how = "thrown" -> "failed"
      [] how = "raised" -> "escaped"

\* The request ends in one of the runs.  A Lua error that leaves the handler unwinds
\* to a PCall below, which cuts the stack.
Answer(runs, setter) ==
    \E r \in runs :
        /\ stack' = IF r.how = "raised" THEN stack ELSE r.st
        /\ chunks' = r.chunks
        /\ last' = [reply |-> Reply(r.how), setter |-> setter, bad |-> r.bad,
                    peak |-> r.peak, low |-> r.low, done |-> r.done]

GetEntityRequest == Answer(RunInCFrame(GetEntityDetail(Frame)), FALSE)
GetEntriesRequest == Answer(RunInCFrame(GetEntries(Frame)), FALSE)
SetTableValueRequest == Answer(RunInCFrame(SetTableField(Frame)), TRUE)
SetNetworkVarRequest == Answer(RunInCFrame(SetNetworkVar(Frame)), TRUE)
SetPropertyRequest ==
    \/ Answer(RunInCFrame(SetPos(Frame)), TRUE)
    \/ Answer(RunInCFrame(SetAngles(Frame)), TRUE)
    \/ Answer(RunInCFrame(SetHealth(Frame)), TRUE)
    \/ Answer(RunInCFrame(SetField(Frame)), TRUE)
GlualsRequest == Answer(InvokeGluals, TRUE)
CommandRequest == Answer(RunCommand, TRUE)

Next ==
    \/ GetEntityRequest \/ GetEntriesRequest
    \/ SetTableValueRequest \/ SetNetworkVarRequest \/ SetPropertyRequest
    \/ GlualsRequest \/ CommandRequest

Spec == Init /\ [][Next]_vars

-----------------------------------------------------------------------------
(* Properties.                                                             *)

\* Whatever is missing, of another type or raises, a request that answers leaves the
\* game's stack as it found it: no slot of the game's is popped, none is left over.
StackRestored == [][last'.reply # "escaped" => stack' = stack]_vars

\* Every PCall finds on the stack the function and the arguments it was pushed for,
\* also after helpers that failed and left slots behind.
CallsWellFormed == ~last.bad

\* A query never pops a slot that is not its own, and what failed helpers leave never
\* adds up to more slots than Lua grants a C function; nothing calls lua_checkstack.
StaysInFrame == last.low >= 0 /\ last.peak <= LUA_MINSTACK

\* A setting request answers ok exactly when one setter was called and returned, and
\* no request calls a second one after that.
ReportsWhatItDid == last.done = IF last.setter /\ last.reply = "ok" THEN 1 ELSE 0
=============================================================================
