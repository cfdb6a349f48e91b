------------------------------- MODULE Configs -------------------------------
(***************************************************************************)
(* The configurations of a database (objc/WCDB/core/config.cpp and         *)
(* database_config.cpp): a copy-on-write list of named configs, sorted by  *)
(* order, that every connection runs from front to back before it is       *)
(* handed out, and again when the list has been replaced.                  *)
(*                                                                         *)
(* setConfig copies the list, edits the copy and assigns it.  Threads do   *)
(* that without a lock, so copy and assignment are two steps here.  Of a   *)
(* config only what it leaves on the connection is kept: the synchronous   *)
(* level and the checkpoint hook.  NULL is a config without a function.    *)
(***************************************************************************)
EXTENDS Integers, SequencesExt

CONSTANTS
    Threads,
    Names,      \* names under which the application sets configs of its own
    Orders,     \* the orders it gives them; empty: it gives none
    MaxCalls,   \* calls of the setters (a bound)
    NULL

INT_MAX == 2147483647

\* The names and the configs of the library, and what the application gives.
\* It may set a config under a name of the library's, too, but here not under
\* one whose effect on the connection is kept.
DefaultNames == {"trace", "cipher", "basic", "synchronous", "checkpoint", "tokenize"}
KeptNames == {"basic", "synchronous", "checkpoint"}
Settings == {"traced", "placeholder", "normal", "full", "hook", "own", "key"}
Configurations == Settings \cup {NULL}

ASSUME ConfigsAssumption ==
    /\ Orders \subseteq (-INT_MAX - 1)..INT_MAX
    /\ MaxCalls \in Nat
    /\ Names \cap KeptNames = {}
    /\ NULL \notin Settings /\ NULL \notin Orders

\* The order of a setConfig that does not give one.
NoOrder == NULL

Entry(name, config, order) == [name |-> name, config |-> config, order |-> order]

defaultConfigs == <<
    Entry("trace", "traced", 0),
    Entry("cipher", "placeholder", 1),
    Entry("basic", "normal", 2),
    Entry("synchronous", NULL, 3),
    Entry("checkpoint", "hook", 4),
    Entry("tokenize", NULL, 5)>>

VARIABLES
    m_configs,  \* the list of the pool
    ran,        \* whether the connection has run that very list
    level,      \* PRAGMA synchronous of the connection
    hooked,     \* whether the connection has the checkpoint commit hook
    todo,       \* todo[t]: the setConfig calls thread t has still to make
    newConfigs, \* newConfigs[t]: the edited copy of the one it is in
    copied,     \* whether thread t has made that copy
    calls

vars == <<m_configs, ran, level, hooked, todo, newConfigs, copied, calls>>
handleVars == <<ran, level, hooked>>

-----------------------------------------------------------------------------

NamesIn(list) == {list[i].name : i \in DOMAIN list}

\* A name is in a list once (TypeOK).
IndexOf(list, name) == CHOOSE i \in DOMAIN list : list[i].name = name

Without(list, name) ==
    IF name \in NamesIn(list) THEN RemoveAt(list, IndexOf(list, name)) ELSE list

\* getConfigByName
ConfigOf(list, name) ==
    IF name \in NamesIn(list) THEN list[IndexOf(list, name)].config ELSE NULL

\* Slip: the new config goes to the front whatever its order.
SetOrderedUnsorted(list, name, config, order) ==
    <<Entry(name, config, order)>> \o Without(list, name)

\* setConfig(name, config, order).  The new config takes the place of the
\* first one with a greater order.
SetOrdered(list, name, config, order) ==
    LET greater == {i \in DOMAIN list : order < list[i].order}
        place == Min(greater \cup {Len(list) + 1})
    IN  Without(SubSeq(list, 1, place - 1), name)
        \o <<Entry(name, config, order)>>
        \o Without(SubSeq(list, place + 1, Len(list)), name)

\* Slip: the loop of the setConfig with an order, for a name that has one.
SetNamedInPlace(list, name, config) ==
    IF name \in NamesIn(list)
    THEN SetOrdered(list, name, config, list[IndexOf(list, name)].order)
    ELSE Append(list, Entry(name, config, INT_MAX))

\* setConfig(name, config): a name that is there keeps its order.
SetNamed(list, name, config) ==
    IF name \in NamesIn(list)
    THEN [i \in DOMAIN list |-> IF list[i].name = name
                                THEN Entry(name, config, list[i].order)
                                ELSE list[i]]
    ELSE Append(list, Entry(name, config, INT_MAX))

Apply(list, call) ==
    IF call.order = NoOrder THEN SetNamed(list, call.name, call.config)
    ELSE SetOrdered(list, call.name, call.config, call.order)

\* The places of the configs that set the synchronous level, and of the one
\* that sets the hook.  No config takes a hook away.
SetsLevel(list) == {i \in DOMAIN list : list[i].config \in {"normal", "full"}}
SetsHook(list) == {i \in DOMAIN list : list[i].config = "hook"}

\* Slip: invoke from the back of the list.
InvokeBackwards(list, handle) ==
    [level |-> IF SetsLevel(list) = {} THEN handle.level
               ELSE list[Min(SetsLevel(list))].config,
     hooked |-> handle.hooked \/ SetsHook(list) # {}]

\* Configs::invoke runs the list front to back: the last config that sets
\* the level decides.
Invoke(list, handle) ==
    [level |-> IF SetsLevel(list) = {} THEN handle.level
               ELSE list[Max(SetsLevel(list))].config,
     hooked |-> handle.hooked \/ SetsHook(list) # {}]

-----------------------------------------------------------------------------

Init ==
    /\ m_configs = defaultConfigs
    /\ ran = FALSE
    /\ level = "none"
    /\ hooked = FALSE
    /\ todo = [t \in Threads |-> <<>>]
    /\ newConfigs = [t \in Threads |-> <<>>]
    /\ copied = [t \in Threads |-> FALSE]
    /\ calls = 0

Named(name, config) == [name |-> name, config |-> config, order |-> NoOrder]

\* Slip: turning FULL on leaves the checkpoint hook in the list.
setSynchronousFullOnly(full) ==
    IF full THEN <<Named("synchronous", "full")>>
    ELSE <<Named("synchronous", NULL), Named("checkpoint", "hook")>>

\* setSynchronousFull sets two configs, one after the other.
setSynchronousFull(full) ==
    IF full THEN <<Named("synchronous", "full"), Named("checkpoint", NULL)>>
    ELSE <<Named("synchronous", NULL), Named("checkpoint", "hook")>>

setCipher == <<Named("cipher", "key")>>

setPerformanceTrace == <<Named("trace", "own")>>

setTokenizes == <<Named("tokenize", "own")>>

\* setConfig with a name of the application's, with and without an order.
setConfig ==
    {<<Named(name, "own")>> : name \in Names}
    \cup {<<[name |-> name, config |-> "own", order |-> order]>> :
              name \in Names, order \in Orders}

\* What an application calls; each call is one or two setConfig.
Requests ==
    {setSynchronousFull(full) : full \in BOOLEAN} \cup setConfig
    \cup {setCipher, setPerformanceTrace, setTokenizes}

Call(t) == \E request \in Requests :
    /\ todo[t] = <<>>
    /\ calls < MaxCalls
    /\ calls' = calls + 1
    /\ todo' = [todo EXCEPT ![t] = request]
    /\ UNCHANGED <<m_configs, handleVars, newConfigs, copied>>

\* setConfig up to its last line: the copy, edited.
Copy(t) ==
    /\ todo[t] # <<>>
    /\ ~copied[t]
    /\ newConfigs' = [newConfigs EXCEPT ![t] = Apply(m_configs, Head(todo[t]))]
    /\ copied' = [copied EXCEPT ![t] = TRUE]
    /\ UNCHANGED <<m_configs, handleVars, todo, calls>>

\* m_configs = newConfigs: a list of its own, though it may have the entries of
\* the one before.
Assign(t) ==
    /\ copied[t]
    /\ m_configs' = newConfigs[t]
    /\ newConfigs' = [newConfigs EXCEPT ![t] = <<>>]
    /\ copied' = [copied EXCEPT ![t] = FALSE]
    /\ todo' = [todo EXCEPT ![t] = Tail(@)]
    /\ ran' = FALSE
    /\ UNCHANGED <<level, hooked, calls>>

\* HandlePool::invoke: a connection that ran another list runs this one.  Lists
\* are compared as pointers (operator==).
FlowOut ==
    /\ ~ran
    /\ LET handle == Invoke(m_configs, [level |-> level, hooked |-> hooked])
       IN  level' = handle.level /\ hooked' = handle.hooked
    /\ ran' = TRUE
    /\ UNCHANGED <<m_configs, todo, newConfigs, copied, calls>>

Next ==
    \/ \E t \in Threads : Call(t) \/ Copy(t) \/ Assign(t)
    \/ FlowOut

Spec == Init /\ [][Next]_vars

-----------------------------------------------------------------------------

(* The shape of the state: lists of entries with one entry for a name.     *)
TypeOK ==
    /\ \A i \in DOMAIN m_configs : m_configs[i].config \in Configurations
    /\ \A i, j \in DOMAIN m_configs :
           m_configs[i].name = m_configs[j].name => i = j
    /\ level \in {"none", "normal", "full"}
    /\ ran \in BOOLEAN
    /\ hooked \in BOOLEAN
    /\ copied \in [Threads -> BOOLEAN]
    /\ calls \in 0..MaxCalls

(* WCTDatabase+Core.h: "The smaller number is called first", whatever was  *)
(* set, set again and set without an order.                                *)
Sorted ==
    /\ TypeOK
    /\ \A i, j \in DOMAIN m_configs :
        i < j => m_configs[i].order <= m_configs[j].order

\* The configs with other names are in the new list as they were.
KeepsOthers(call) == \A name \in NamesIn(m_configs) \ {call.name} :
    /\ name \in NamesIn(m_configs')
    /\ ConfigOf(m_configs', name) = ConfigOf(m_configs, name)

(* config.hpp:41, a set "combines the original [ConfigList] and the new    *)
(* config", with an order and without.                                     *)
OthersKept == [][\A t \in Threads :
    copied[t] /\ ~copied'[t] => KeepsOthers(Head(todo[t]))]_vars

(* The same for the sets without an order, which all setters of the        *)
(* library are, whatever orders the application has used before.           *)
NamedKeepsOthers == [][\A t \in Threads :
    copied[t] /\ ~copied'[t] /\ Head(todo[t]).order = NoOrder
        => KeepsOthers(Head(todo[t]))]_vars

(* setSynchronousFull "will disable checkpoint opti": whenever no setter   *)
(* is at work a list that has both configs has FULL or the hook.           *)
SynchronousConsistent ==
    (\A t \in Threads : todo[t] = <<>>)
    /\ {"synchronous", "checkpoint"} \subseteq NamesIn(m_configs) =>
        (ConfigOf(m_configs, "synchronous") = NULL
            <=> ConfigOf(m_configs, "checkpoint") = "hook")

(* A connection that has run the current list has the synchronous level    *)
(* that list asks for, whatever it ran before: Basic sets NORMAL, and the  *)
(* synchronous config, which sets FULL, comes after it.  (A set with an    *)
(* order can drop Basic: see OthersKept.)                                  *)
LevelAsConfigured == ran /\ "basic" \in NamesIn(m_configs) =>
    level = IF ConfigOf(m_configs, "synchronous") = "full" THEN "full" ELSE "normal"

(* The same for the checkpoint hook (WCTDatabase+Core.h:107).              *)
HookAsConfigured == ran =>
    (hooked <=> ConfigOf(m_configs, "checkpoint") = "hook")

(* WCTDatabase+Core.h:99, setConfig:forName: "is equivalent to" setConfig: *)
(* forName:withOrder:INT_MAX, also for a name that was set with an order.  *)
NamedIsIntMax == [][\A t \in Threads : copied[t] /\ ~copied'[t] =>
    LET call == Head(todo[t]) IN
    call.name \in Names /\ call.order = NoOrder =>
        m_configs' = SetOrdered(m_configs, call.name, call.config, INT_MAX)]_vars

=============================================================================
