----------------------------- MODULE WasmGuard -----------------------------
(***************************************************************************)
(* One WASM guard, shared by every session (internal/guard/wasm_*.go).     *)
(* A call takes the guard's mutex, stores the backend the guest may ask,   *)
(* resets the counter of backend calls and then runs the exported function *)
(* up to MaxAttempts times, each time with a larger output buffer, inside  *)
(* two buffers allocated in (and given back to) the guest's memory.        *)
(* The registry closes the module at shutdown without taking the mutex.    *)
(* What the guest does is a choice: any result, any trap, at any time.     *)
(* Sizes are in units of 4 MiB. The locals of callWasmFunction belong to    *)
(* the caller that holds the mutex.                                        *)
(***************************************************************************)
EXTENDS Integers, FiniteSets

CONSTANTS Callers,      \* requests that reach the guard together
          MaxBackend,   \* maxBackendCallsPerInvocation
          InitialSize,  \* initialOutputSize
          MaxSize,      \* maxOutputSize
          MaxAttempts,  \* maxRetries
          Nobody        \* the mutex is free

ASSUME WasmAssumption ==
  /\ MaxBackend \in Nat /\ MaxAttempts \in Nat \ {0}
  /\ InitialSize \in Nat \ {0} /\ MaxSize \in Nat /\ InitialSize <= MaxSize
  /\ Nobody \notin Callers

VARIABLES wlock,     \* who holds g.mu
          failed,    \* g.failed
          module,    \* "open", or "closed" by Close or by a cancelled request
          allocator, \* the module exports alloc and dealloc
          backend,   \* g.backend: whose backend the host function calls
          count,     \* g.backendCallCount
          at,        \* where each caller is
          size,      \* outputSize of the running call
          tries,     \* its attempts so far
          last,      \* what its last attempt gave
          sent,      \* backend requests it has really sent
          trapped    \* history: an attempt ended in a trap

wvars == <<wlock, failed, module, allocator, backend, count, at, size,
           tries, last, sent, trapped>>

Entered  == {"alloc", "allocOut", "running"}   \* inside guest code, but for dealloc
Places   == {"idle", "waiting", "dealloc", "free"} \cup Entered
Outcomes == {"none", "result", "tooSmall", "error", "fault", "exit0", "exit1"}

WasmInit ==
  /\ wlock = Nobody /\ backend = Nobody
  /\ failed = FALSE /\ trapped = FALSE /\ module = "open"
  /\ allocator \in BOOLEAN
  /\ count = 0
  /\ at = [c \in Callers |-> "idle"] /\ size = 0
  /\ tries = 0 /\ last = "none" /\ sent = 0

Request(c) ==
  /\ at[c] = "idle"
  /\ at' = [at EXCEPT ![c] = "waiting"]
  /\ UNCHANGED <<wlock, failed, module, allocator, backend, count, size,
                 tries, last, sent, trapped>>

MutexFree_Ignored == TRUE
MutexFree == wlock = Nobody

(* callWasmGuardFunction and the first lines of callWasmFunction: a failed *)
(* guard, a missing export or too large an input ends the call here        *)
Enter(c) ==
  /\ at[c] = "waiting" /\ MutexFree
  /\ backend' = c /\ count' = 0
  /\ \/ /\ at' = [at EXCEPT ![c] = "idle"]
        /\ UNCHANGED <<wlock, size>>
     \/ /\ ~failed
        /\ wlock' = c
        /\ at' = [at EXCEPT ![c] = "alloc"]
        /\ size' = InitialSize
  /\ UNCHANGED <<failed, module, allocator, tries, last, sent, trapped>>

(* isWasmTrap: a WASM fault, or an exit with a code other than zero, which *)
(* is also how the runtime ends a guest whose request is cancelled         *)
IsWasmTrap_OnlyFaults(o) == o = "fault"
IsWasmTrap(o) == o \in {"fault", "exit1"}

(* what a guest function that does not return normally ends with *)
Faults == IF module = "closed" THEN {"exit0"}
          ELSE {"error", "fault", "exit0", "exit1"}

(* an attempt is over: what it gave, and next the deferred deallocations, *)
(* if it got as far as a buffer from the guest                            *)
EndAttempt(c, o) ==
  /\ last' = o
  /\ at' = [at EXCEPT ![c] = IF allocator /\ @ # "alloc" THEN "dealloc" ELSE "free"]
  /\ trapped' = (trapped \/ o \in {"fault", "exit1"})

AllocFails(c) ==
  /\ at[c] \in {"alloc", "allocOut"} /\ allocator
  /\ \E o \in Faults : EndAttempt(c, o)
  /\ UNCHANGED <<wlock, failed, module, allocator, backend, count, size, tries, sent>>

AllocInput(c) ==
  /\ at[c] = "alloc" /\ allocator /\ module = "open"
  /\ at' = [at EXCEPT ![c] = "allocOut"]
  /\ UNCHANGED <<wlock, failed, module, allocator, backend, count, size, tries,
                 last, sent, trapped>>

AllocOutput(c) ==
  /\ at[c] = "allocOut" /\ allocator /\ module = "open"
  /\ at' = [at EXCEPT ![c] = "running"]
  /\ UNCHANGED <<wlock, failed, module, allocator, backend, count, size, tries,
                 last, sent, trapped>>

(* no alloc export: both buffers at the end of memory, grown if needed *)
UseDirectMemory(c) ==
  /\ at[c] = "alloc" /\ ~allocator
  /\ \/ /\ at' = [at EXCEPT ![c] = "running"]
        /\ UNCHANGED <<last, trapped>>
     \/ EndAttempt(c, "error")
  /\ UNCHANGED <<wlock, failed, module, allocator, backend, count, size, tries, sent>>

(* hostCallBackend: past the limit the guest is told -1 and nothing is sent; *)
(* its alloc and dealloc may call it too                                     *)
MaxGuestCalls == MaxBackend + 2   \* bound on the calls a guest makes

CallBackend(c) ==
  /\ at[c] \in Entered \cup {"dealloc"} /\ module = "open" /\ count < MaxGuestCalls
  /\ count' = count + 1
  /\ sent' = IF count + 1 > MaxBackend THEN sent ELSE sent + 1
  /\ UNCHANGED <<wlock, failed, module, allocator, backend, at, size,
                 tries, last, trapped>>

Returns(c) ==
  /\ at[c] = "running"
  /\ \E o \in (Faults \cup IF module = "open" THEN {"result", "tooSmall"} ELSE {}) :
       EndAttempt(c, o)
  /\ UNCHANGED <<wlock, failed, module, allocator, backend, count, size, tries, sent>>

(* the caller's context is done: the runtime closes the module on it *)
Cancelled(c) ==
  /\ at[c] \in Entered /\ module = "open"
  /\ module' = "closed"
  /\ EndAttempt(c, "exit1")
  /\ UNCHANGED <<wlock, failed, allocator, backend, count, size, tries, sent>>

(* the sizes a guest asks for; 0 when it names none *)
Required == 0..(MaxSize + 1)

NextSize(r) == IF r = 0 THEN 2 * size ELSE r

Leave(c) ==
  /\ wlock' = Nobody
  /\ at' = [at EXCEPT ![c] = "idle"]
  /\ size' = 0 /\ tries' = 0 /\ last' = "none" /\ sent' = 0
  /\ UNCHANGED count

(* one attempt more after "buffer too small": the budget of backend calls  *)
(* goes on from where it was                                               *)
CountOnRetry == count

GivesUp(r) == NextSize(r) > MaxSize \/ tries + 1 = MaxAttempts

(* wasmDealloc: the buffers go back to the guest, also to one that has just *)
(* trapped.  Its dealloc may trap in turn: that is logged and nothing else. *)
Dealloc(c) ==
  /\ at[c] = "dealloc"
  /\ at' = [at EXCEPT ![c] = "free"]
  /\ UNCHANGED <<wlock, failed, module, allocator, backend, count, size, tries,
                 last, sent, trapped>>

(* then the attempt's outcome decides *)
Free(c) ==
  /\ at[c] = "free"
  /\ failed' = (failed \/ IsWasmTrap(last))
  /\ \/ last # "tooSmall" /\ Leave(c)
     \/ \E r \in Required :
          /\ last = "tooSmall"
          /\ \/ GivesUp(r) /\ Leave(c)
             \/ /\ ~GivesUp(r)
                /\ size' = NextSize(r) /\ tries' = tries + 1 /\ last' = "none"
                /\ count' = CountOnRetry
                /\ at' = [at EXCEPT ![c] = "alloc"]
                /\ UNCHANGED <<wlock, sent>>
  /\ UNCHANGED <<module, allocator, backend, trapped>>

(* Registry.Close at shutdown; it does not wait for the mutex *)
CloseGuard ==
  /\ module = "open"
  /\ module' = "closed"
  /\ UNCHANGED <<wlock, failed, allocator, backend, count, at, size,
                 tries, last, sent, trapped>>

WasmNext ==
  \/ \E c \in Callers :
       \/ Request(c) \/ Enter(c) \/ AllocFails(c) \/ AllocInput(c)
       \/ AllocOutput(c) \/ UseDirectMemory(c) \/ CallBackend(c)
       \/ Returns(c) \/ Cancelled(c) \/ Dealloc(c) \/ Free(c)
  \/ CloseGuard

WasmSpec == WasmInit /\ [][WasmNext]_wvars

-----------------------------------------------------------------------------

(* host_call_backend does what it says: the backend a running guest can    *)
(* reach is the one of the request that runs it and never another          *)
(* session's, although the field is shared and written at the start of     *)
(* every call; and however often the buffer has to grow, one invocation    *)
(* sends no more than MaxBackend requests.                                 *)
BackendCallsConfined ==
  /\ \A c \in Callers : at[c] \in Entered \cup {"dealloc", "free"} => backend = c
  /\ sent <= MaxBackend

(* Once an attempt has trapped, in the guard's function or in its alloc, or *)
(* was cut off by its own request's cancellation, no call enters the guard  *)
(* again, at this attempt, at the next or from another request: the         *)
(* module's memory cannot be trusted.  It says nothing of a trap in dealloc *)
(* alone, which marks nothing (wasmDealloc).                                *)
PoisonedStaysOut == trapped => \A c \in Callers : at[c] \notin Entered
=============================================================================
