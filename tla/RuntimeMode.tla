----------------------------- MODULE RuntimeMode -----------------------------
(***************************************************************************)
(* runtime_mode.rs and the calls of lib.rs and casc_resolver.rs that ask   *)
(* it: the threads of one process, each with resolvers of either policy,   *)
(* decide together whether the process may touch the installation.  The    *)
(* mode is fixed by whoever needs it first, from an environment that the   *)
(* program may still change.                                               *)
(*                                                                         *)
(* What a call does behind its first guard is one step here, Access: this  *)
(* module is about who gets there.  Later guards of the same call read the *)
(* mode that the first one fixed.                                          *)
(***************************************************************************)
EXTENDS Naturals, FiniteSets

CONSTANT Threads

ASSUME ThreadsAssumption == IsFiniteSet(Threads)

VARIABLES
    env,        \* GAME_ENGINE_ASSET_MODE
    mode,       \* PROCESS_MODE: a set with at most one mode
    forbidden,  \* FORBIDDEN_ACCESSES
    hook,       \* ACCESS_HOOK
    point,      \* where each thread is,
    call,       \* in which call,
    policy,     \* on a resolver with which runtime_mode
    chosen,     \* the mode that configure_runtime_mode_from_env parsed
    outcome,    \* how the thread's last call ended
    confirmed,  \* ghost: the modes that a configuration returned Ok with
    denials     \* ghost: the denials that reached a hook or a caller

process == <<env, mode, forbidden, hook>>
thread == <<point, call, policy, chosen, outcome>>
ghosts == <<confirmed, denials>>
doorVars == <<process, thread, ghosts>>

Local == "local-casc"
Extracted == "extracted-only"
Modes == {Local, Extracted}

EnvValues == {"unset", "invalid"} \cup Modes

\* Mutant: no default when the variable is not set.
ParsedAsIs(value) == value

Parsed(value) == IF value = "unset" THEN Local ELSE value

\* Calls on a resolver, and calls that go by the process mode: "install" is
\* wow_install_path and the free resolve_bytes, which return an Option;
\* "direct" is extract_fdid_to_path and the *_for_install functions; "open"
\* and "read" are FrozenArchiveReader's.
ResolverCalls == {"ensure_cached", "resolve_bytes", "initialize"}
ProcessCalls == {"install", "direct", "open", "read"}
Calls == {"none", "configure"} \cup ResolverCalls \cup ProcessCalls

Points == {"idle", "select", "file", "mode", "guard", "count", "denied", "casc", "error"}
Outcomes == {"none", "Ok", "Err", "omitted", "panic"}
Hooks == {"none", "returns", "panics"}

DoorInit ==
    /\ env \in EnvValues
    /\ mode = {} /\ forbidden = 0 /\ hook = "none"
    /\ point = [t \in Threads |-> "idle"]
    /\ call = [t \in Threads |-> "none"]
    /\ policy = [t \in Threads |-> Local]
    /\ chosen = [t \in Threads |-> Local]
    /\ outcome = [t \in Threads |-> "none"]
    /\ confirmed = {} /\ denials = 0

Go(t, p) ==
    /\ point' = [point EXCEPT ![t] = p]
    /\ UNCHANGED <<call, policy, chosen, outcome>>

End(t, o) ==
    /\ point' = [point EXCEPT ![t] = "idle"]
    /\ call' = [call EXCEPT ![t] = "none"]
    /\ policy' = [policy EXCEPT ![t] = Local]
    /\ chosen' = [chosen EXCEPT ![t] = Local]
    /\ outcome' = [outcome EXCEPT ![t] = o]

\* What the caller of a guarded function makes of its Err.
Fails(t) ==
    CASE call[t] = "ensure_cached" -> Go(t, "error")
      [] call[t] \in {"resolve_bytes", "install"} -> End(t, "omitted")
      [] call[t] \in {"initialize", "direct", "open", "read"} -> End(t, "Err")

-----------------------------------------------------------------------------
(* The process mode *)

\* effective_runtime_mode(policy[t]) is m.  process_runtime_mode is asked, and
\* the mode fixed, only for a policy that is not extracted-only itself.
ReadMode(t, m) ==
    \/ policy[t] = Extracted /\ m = Extracted /\ UNCHANGED mode
    \/ policy[t] = Local /\ m \in mode /\ UNCHANGED mode
    \/ /\ policy[t] = Local /\ mode = {} /\ env # "invalid"
       /\ m = Parsed(env)
       /\ mode' = {m}

\* The closure given to get_or_init panics, and the cell stays empty.
Panic(t) ==
    /\ point[t] \in {"mode", "guard", "error"}
    /\ policy[t] = Local /\ mode = {} /\ env = "invalid"
    /\ End(t, "panic")
    /\ UNCHANGED <<process, ghosts>>

\* configure_runtime_mode_from_env, up to get_or_init.
Configure(t) ==
    /\ point[t] = "idle"
    /\ IF env = "invalid"
       THEN End(t, "Err")
       ELSE /\ point' = [point EXCEPT ![t] = "select"]
            /\ call' = [call EXCEPT ![t] = "configure"]
            /\ chosen' = [chosen EXCEPT ![t] = Parsed(env)]
            /\ outcome' = [outcome EXCEPT ![t] = "none"]
            /\ UNCHANGED policy
    /\ UNCHANGED <<process, ghosts>>

\* Mutant: the cell is overwritten, as a lock around an Option would allow.
SelectAlways(t) ==
    /\ point[t] = "select"
    /\ mode' = {chosen[t]}
    /\ confirmed' = confirmed \cup {chosen[t]}
    /\ End(t, "Ok")
    /\ UNCHANGED <<env, forbidden, hook, denials>>

Select(t) ==
    /\ point[t] = "select"
    /\ mode' = IF mode = {} THEN {chosen[t]} ELSE mode
    /\ IF chosen[t] \in mode'
       THEN End(t, "Ok") /\ confirmed' = confirmed \cup {chosen[t]}
       ELSE End(t, "Err") /\ UNCHANGED confirmed
    /\ UNCHANGED <<env, forbidden, hook, denials>>

\* The program around the resolver changes its environment.
SetEnv(value) ==
    /\ env' = value
    /\ UNCHANGED <<mode, forbidden, hook, thread, ghosts>>

\* set_casc_access_hook, when it succeeds.
SetHook(kind) ==
    /\ hook = "none"
    /\ hook' = kind
    /\ UNCHANGED <<env, mode, forbidden, thread, ghosts>>

-----------------------------------------------------------------------------
(* The calls that may need CASC *)

Call(t, c, p) ==
    /\ point[t] = "idle"
    /\ point' = [point EXCEPT ![t] = CASE c = "ensure_cached" -> "file"
                                       [] c \in {"resolve_bytes", "initialize"} -> "mode"
                                       [] c \in ProcessCalls -> "guard"]
    /\ call' = [call EXCEPT ![t] = c]
    /\ policy' = [policy EXCEPT ![t] = p]
    /\ outcome' = [outcome EXCEPT ![t] = "none"]
    /\ UNCHANGED <<chosen, process, ghosts>>

\* ensure_cached_checked, before it asks for the mode: the path does not belong
\* to the resolver, the file is there, or it is not.
LookForFile(t) ==
    /\ point[t] = "file"
    /\ Go(t, "error") \/ End(t, "Ok") \/ Go(t, "mode")
    /\ UNCHANGED <<process, ghosts>>

\* Mutant: ensure_cached, too, leaves the refusal to the guard.
AskModeLater(t) ==
    /\ point[t] = "mode"
    /\ \E m \in Modes :
        /\ ReadMode(t, m)
        /\ IF m = Extracted /\ call[t] = "initialize" THEN End(t, "Ok") ELSE Go(t, "guard")
    /\ UNCHANGED <<env, forbidden, hook, ghosts>>

\* self.runtime_mode() == ExtractedOnly, which every resolver call tests first.
AskMode(t) ==
    /\ point[t] = "mode"
    /\ \E m \in Modes :
        /\ ReadMode(t, m)
        /\ CASE m = Local \/ call[t] = "resolve_bytes" -> Go(t, "guard")
             [] m = Extracted /\ call[t] = "initialize" -> End(t, "Ok")
             [] m = Extracted /\ call[t] = "ensure_cached" -> Go(t, "error")
    /\ UNCHANGED <<env, forbidden, hook, ghosts>>

\* Mutant: a resolver is guarded by its own configuration alone.
GuardByPolicy(t) ==
    /\ point[t] = "guard"
    /\ Go(t, IF policy[t] = Local THEN "casc" ELSE "count")
    /\ UNCHANGED <<process, ghosts>>

\* guard_casc_access
Guard(t) ==
    /\ point[t] = "guard"
    /\ \E m \in Modes : ReadMode(t, m) /\ Go(t, IF m = Local THEN "casc" ELSE "count")
    /\ UNCHANGED <<env, forbidden, hook, ghosts>>

\* Mutant: a denial is counted only when no hook was told.
CountWithoutHook(t) ==
    /\ point[t] = "count"
    /\ forbidden' = IF hook = "none" THEN forbidden + 1 ELSE forbidden
    /\ Go(t, "denied")
    /\ UNCHANGED <<env, mode, hook, ghosts>>

Count(t) ==
    /\ point[t] = "count"
    /\ forbidden' = forbidden + 1
    /\ Go(t, "denied")
    /\ UNCHANGED <<env, mode, hook, ghosts>>

\* The hook runs; then the caller has the error, which resolve_bytes of a
\* resolver expects never to get.
Denied(t) ==
    /\ point[t] = "denied"
    /\ denials' = denials + 1
    /\ IF hook = "panics" \/ call[t] = "resolve_bytes" THEN End(t, "panic") ELSE Fails(t)
    /\ UNCHANGED <<process, confirmed>>

\* Installation discovery, CASC I/O, extraction.
Access(t, o) ==
    /\ point[t] = "casc"
    /\ IF o = "Ok" THEN End(t, "Ok") ELSE Fails(t)
    /\ UNCHANGED <<process, ghosts>>

\* The error arm of ensure_cached asks for the mode once more.
ErrorArm(t) ==
    /\ point[t] = "error"
    /\ \E m \in Modes : ReadMode(t, m) /\ End(t, IF m = Extracted THEN "Err" ELSE "omitted")
    /\ UNCHANGED <<env, forbidden, hook, ghosts>>

CallAny(t) ==
    \/ Configure(t)
    \/ \E c \in ResolverCalls, p \in Modes : Call(t, c, p)
    \/ \E c \in ProcessCalls : Call(t, c, Local)

ProgramChanges ==
    \/ \E value \in EnvValues \ {env} : SetEnv(value)
    \/ \E kind \in Hooks \ {"none"} : SetHook(kind)

\* A call goes on, before and after the guard lets it pass.
DoorSteps(t) ==
    \/ Select(t) \/ LookForFile(t) \/ AskMode(t) \/ Panic(t)
    \/ Guard(t) \/ Count(t) \/ Denied(t) \/ ErrorArm(t)

DoorNext ==
    \/ \E t \in Threads :
        CallAny(t) \/ DoorSteps(t) \/ \E o \in {"Ok", "Err"} : Access(t, o)
    \/ ProgramChanges

DoorSpec == DoorInit /\ [][DoorNext]_doorVars

-----------------------------------------------------------------------------
(* Properties *)

\* The state is of the expected kind.
DoorTypeOK ==
    /\ env \in EnvValues /\ mode \in SUBSET Modes
    /\ forbidden \in Nat /\ hook \in Hooks
    /\ point \in [Threads -> Points]
    /\ call \in [Threads -> Calls]
    /\ policy \in [Threads -> Modes]
    /\ chosen \in [Threads -> Modes]
    /\ outcome \in [Threads -> Outcomes]
    /\ confirmed \subseteq Modes /\ denials \in Nat

\* The installation is touched only in a process that is local-casc, for good,
\* and only by resolvers that are: whatever the environment says by then, and
\* whichever thread fixed the mode (guard_casc_access, the single choke point).
AccessIsLocal == \A t \in Threads : point[t] = "casc" => mode = {Local} /\ policy[t] = Local

\* A mode that configure_runtime_mode_from_env returned Ok with is the mode of
\* the process from then on; so two configurations never confirm different ones.
ConfirmedIsFinal == confirmed \subseteq mode /\ mode \in {{}} \cup {{m} : m \in Modes}

\* "A denied entry records evidence before invoking the hook or returning an
\* error": forbidden_casc_access_count is never behind what was denied, also
\* when threads are denied at once or a hook panics, and counts nothing else.
DenialsAreCounted ==
    forbidden = denials + Cardinality({t \in Threads : point[t] = "denied"})

\* "Extracted-only misses must propagate the checked error, never panic or omit
\* it": how ensure_cached may end on an extracted-only resolver or process.
ExtractedMissesReport ==
    [][\A t \in Threads :
        (/\ call[t] = "ensure_cached" /\ point'[t] = "idle"
         /\ policy[t] = Extracted \/ Extracted \in mode)
        => outcome'[t] \in {"Ok", "Err"}]_doorVars
=============================================================================
