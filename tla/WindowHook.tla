----------------------------- MODULE WindowHook -----------------------------
(***************************************************************************)
(* One window under windowHook() (inc/impl/MessageQueue.cpp), from its     *)
(* WM_CREATE to its end: the chain of window procedures, which others cut  *)
(* and restore, the properties of the window and its listeners             *)
(* (inc/impl/Window.cpp).                                                  *)
(*                                                                         *)
(* Window procedures call each other and may be entered again by the       *)
(* handlers they call: calling holds the calls that have not returned.     *)
(***************************************************************************)
EXTENDS Naturals, Sequences

CONSTANTS
  Listeners,    \* Window::Listener objects
  Subclassers,  \* other code that subclasses the window above windowHook
  PlanOf,       \* the plans the subclassers may follow
  NoProc,       \* no procedure, no plan
  MaxSent,      \* bound: ordinary messages sent to the window
  MaxCalls      \* bound: calls of addListener and removeListener

(* When a subclasser puts back the procedure it had found, and whether it  *)
(* does so before or after it has passed the message on.                   *)
Plans == [at : {"destroy", "ncdestroy"}, order : {"before", "after"}]

HookKinds == {"other", "destroy", "ncdestroy"}

(* Every procedure has a name of its own.                                  *)
ASSUME HookAssumption ==
  /\ MaxSent \in Nat /\ MaxCalls \in Nat
  /\ PlanOf \subseteq [Subclassers -> Plans \cup {NoProc}]
  /\ NoProc \notin Plans \cup Subclassers \cup HookKinds
  /\ {"class", "windowHook", "listener", "DestroyWindow"} \cap (Subclassers \cup {NoProc}) = {}

VARIABLES
  life,       \* "created", "destroying" or "gone"
  wndproc,    \* GWL_WNDPROC
  found,      \* what each subclasser found there when it came, or NoProc
  plan,
  hooked,     \* the window is in the set hooked
  chain,      \* the property hookedChain of the map "user", NoProc without it
  system,     \* the map "system" exists
  attached,   \* the set in it; the key is there only with members
  calling,    \* the calls in progress, innermost last
  sent,       \* messages sent to the window, by kind
  seen,       \* those the window's own procedure has received
  calls,      \* addListener and removeListener so far
  crashed     \* a null reference was used

hookVars == <<life, wndproc, found, plan, hooked, chain, system, attached, calling, sent, seen,
          calls, crashed>>

Call(p, m) == [proc |-> p, msg |-> m, at |-> "in", next |-> NoProc, todo |-> {}]
Top == calling[Len(calling)]
Below == SubSeq(calling, 1, Len(calling) - 1)
Within(p, at) == ~crashed /\ calling # <<>> /\ Top.proc = p /\ Top.at = at

(* hookWindow() has run from WM_CREATE: the class's procedure is the chain.*)
HookInit ==
  /\ life = "created"
  /\ wndproc = "windowHook"
  /\ found = [s \in Subclassers |-> NoProc]
  /\ plan \in PlanOf
  /\ hooked = TRUE
  /\ chain = "class"
  /\ system = FALSE
  /\ attached = {}
  /\ calling = <<>>
  /\ sent = [k \in HookKinds |-> 0]
  /\ seen = [k \in HookKinds |-> 0]
  /\ calls = 0
  /\ crashed = FALSE

Subclass(s) ==
  /\ life = "created" /\ calling = <<>> /\ found[s] = NoProc /\ ~crashed
  /\ found' = [found EXCEPT ![s] = wndproc]
  /\ wndproc' = s
  /\ UNCHANGED <<life, plan, hooked, chain, system, attached, calling, sent, seen, calls, crashed>>

(* Application code runs from a message of another window or in a handler  *)
(* of this one.                                                            *)
Application ==
  /\ ~crashed
  /\ life # "gone"
  /\ \/ calling = <<>>
     \/ Within("listener", "in")
     \/ Within("class", "in") /\ Top.msg = "other"

Send ==
  /\ life = "created" /\ calling = <<>> /\ ~crashed
  /\ sent.other < MaxSent
  /\ sent' = [sent EXCEPT !.other = @ + 1]
  /\ calling' = <<Call(wndproc, "other")>>
  /\ UNCHANGED <<life, wndproc, found, plan, hooked, chain, system, attached, seen, calls, crashed>>

DestroyWindow ==
  /\ Application /\ life = "created"
  /\ life' = "destroying"
  /\ calling' = Append(calling, Call("DestroyWindow", NoProc))
  /\ UNCHANGED <<wndproc, found, plan, hooked, chain, system, attached, sent, seen, calls, crashed>>

(* DestroyWindow() sends WM_DESTROY and then WM_NCDESTROY.                 *)
SendDestroy(at, m, after) ==
  /\ Within("DestroyWindow", at)
  /\ sent' = [sent EXCEPT ![m] = @ + 1]
  /\ calling' = Append([calling EXCEPT ![Len(calling)].at = after], Call(wndproc, m))
  /\ UNCHANGED <<life, wndproc, found, plan, hooked, chain, system, attached, seen, calls, crashed>>

WindowDestroyed ==
  /\ Within("DestroyWindow", "out")
  /\ life' = "gone"
  /\ calling' = Below
  /\ UNCHANGED <<wndproc, found, plan, hooked, chain, system, attached, sent, seen, calls, crashed>>

AddListener(l) ==
  /\ Application /\ calls < MaxCalls
  /\ calls' = calls + 1
  /\ system' = TRUE
  /\ attached' = attached \cup {l}
  /\ UNCHANGED <<life, wndproc, found, plan, hooked, chain, calling, sent, seen, crashed>>

(* The key goes with the last listener, but the map stays: the next call   *)
(* finds the map and no set in it, and asks the set all the same.          *)
RemoveListener(l) ==
  /\ Application /\ calls < MaxCalls
  /\ calls' = calls + 1
  /\ crashed' = (system /\ attached = {})
  /\ attached' = attached \ {l}
  /\ UNCHANGED <<life, wndproc, found, plan, hooked, chain, system, calling, sent, seen>>

---------------------------------------------------------------------------
(* windowHook() reads the chain before it calls anybody.                   *)
HookEnter ==
  /\ Within("windowHook", "in")
  /\ calling' = [calling EXCEPT ![Len(calling)].at = "notify",
                            ![Len(calling)].next = chain,
                            ![Len(calling)].todo =
                              IF Top.msg # "ncdestroy" THEN attached ELSE {}]
  /\ UNCHANGED <<life, wndproc, found, plan, hooked, chain, system, attached, sent, seen,
                 calls, crashed>>

(* The next listener of the clone; its handler may do what Application may.*)
HookNotify(l) ==
  /\ Within("windowHook", "notify")
  /\ l \in Top.todo
  /\ calling' = Append([calling EXCEPT ![Len(calling)].todo = @ \ {l}], Call("listener", Top.msg))
  /\ UNCHANGED <<life, wndproc, found, plan, hooked, chain, system, attached, sent, seen,
                 calls, crashed>>

ListenerReturns ==
  /\ Within("listener", "in")
  /\ calling' = Below
  /\ UNCHANGED <<life, wndproc, found, plan, hooked, chain, system, attached, sent, seen,
                 calls, crashed>>

(* Mutant: the chain is read where it is called.                           *)
HookPassOn_ReadLate ==
  /\ Within("windowHook", "notify")
  /\ Top.todo = {}
  /\ LET here == [calling EXCEPT ![Len(calling)].at = "out"]
     IN  calling' = IF chain = NoProc THEN here ELSE Append(here, Call(chain, Top.msg))
  /\ UNCHANGED <<life, wndproc, found, plan, hooked, chain, system, attached, sent, seen,
                 calls, crashed>>

HookPassOn ==
  /\ Within("windowHook", "notify")
  /\ Top.todo = {}
  /\ LET here == [calling EXCEPT ![Len(calling)].at = "out"]
     IN  calling' = IF Top.next = NoProc THEN here
                  ELSE Append(here, Call(Top.next, Top.msg))
  /\ UNCHANGED <<life, wndproc, found, plan, hooked, chain, system, attached, sent, seen,
                 calls, crashed>>

(* Window::notifyDestroy() deletes both maps.                              *)
NotifyDestroy == chain' = NoProc /\ system' = FALSE /\ attached' = {}

(* On the way back from WM_DESTROY or WM_NCDESTROY the hook takes itself   *)
(* out if nobody stands above it; otherwise WM_NCDESTROY is the last       *)
(* chance to free what belongs to the window.                              *)
HookReturn ==
  /\ Within("windowHook", "out")
  /\ calling' = Below
  /\ \/ /\ Top.msg # "other" /\ wndproc = "windowHook"
        /\ crashed' = (chain = NoProc)
        /\ wndproc' = chain
        /\ hooked' = FALSE
        /\ NotifyDestroy
     \/ /\ Top.msg = "ncdestroy" /\ wndproc # "windowHook"
        /\ hooked' = FALSE
        /\ NotifyDestroy
        /\ UNCHANGED <<wndproc, crashed>>
     \/ /\ Top.msg = "other" \/ (Top.msg = "destroy" /\ wndproc # "windowHook")
        /\ UNCHANGED <<wndproc, hooked, chain, system, attached, crashed>>
  /\ UNCHANGED <<life, found, plan, sent, seen, calls>>

---------------------------------------------------------------------------
(* A subclasser passes every message on to the procedure it had found, and *)
(* puts that one back as it plans, whoever has come above it since.        *)
Restores(s, order) == plan[s] # NoProc /\ plan[s] = [at |-> Top.msg, order |-> order]

SubclasserEnters(s) ==
  /\ Within(s, "in")
  /\ wndproc' = IF Restores(s, "before") THEN found[s] ELSE wndproc
  /\ calling' = Append([calling EXCEPT ![Len(calling)].at = "out"], Call(found[s], Top.msg))
  /\ UNCHANGED <<life, found, plan, hooked, chain, system, attached, sent, seen, calls, crashed>>

SubclasserReturns(s) ==
  /\ Within(s, "out")
  /\ wndproc' = IF Restores(s, "after") THEN found[s] ELSE wndproc
  /\ calling' = Below
  /\ UNCHANGED <<life, found, plan, hooked, chain, system, attached, sent, seen, calls, crashed>>

(* The window's own procedure.                                             *)
ClassReturns ==
  /\ Within("class", "in")
  /\ seen' = [seen EXCEPT ![Top.msg] = @ + 1]
  /\ calling' = Below
  /\ UNCHANGED <<life, wndproc, found, plan, hooked, chain, system, attached, sent, calls, crashed>>

Done == ((life = "gone" /\ calling = <<>>) \/ crashed) /\ UNCHANGED hookVars

HookNext ==
  \/ Send \/ DestroyWindow \/ WindowDestroyed
  \/ SendDestroy("in", "destroy", "nc") \/ SendDestroy("nc", "ncdestroy", "out")
  \/ HookEnter \/ HookPassOn \/ HookReturn \/ ListenerReturns \/ ClassReturns
  \/ \E l \in Listeners : AddListener(l) \/ RemoveListener(l) \/ HookNotify(l)
  \/ \E s \in Subclassers : Subclass(s) \/ SubclasserEnters(s) \/ SubclasserReturns(s)
  \/ Done

HookSpec == HookInit /\ [][HookNext]_hookVars

---------------------------------------------------------------------------
(* Nobody restores before WM_DESTROY is passed on where another one does   *)
(* so after.                                                               *)
OneOrder(plans) ==
  \A s, t \in Subclassers :
    /\ plans[s] \in Plans /\ plans[s].at = "destroy"
    /\ plans[t] \in Plans /\ plans[t].at = "destroy"
    => plans[s].order = plans[t].order

(* The procedure of the window receives every message sent to it, once:    *)
(* also the last two, also when a listener destroys the window while the   *)
(* hook stands between, whatever others put back.                          *)
NothingLost == calling = <<>> => seen = sent

(* When the window is gone the hook has forgotten it, so that the check at *)
(* WM_QUIT finds hooked empty, and its two maps are freed.                 *)
NothingKept ==
  life = "gone" /\ calling = <<>> => ~hooked /\ chain = NoProc /\ ~system

(* On the way back from the last two the hook finds the chain, which it    *)
(* puts back in its own place.                                             *)
ChainIsThere == Within("windowHook", "out") /\ Top.msg # "other" => chain # NoProc

(* Every message arrives, and nothing stays.                               *)
HookIsOrderly == NothingLost /\ NothingKept /\ ChainIsThere

(* "removeListener is excesive" (Window.cpp:32): one call too many is      *)
(* reported.                                                               *)
ExcessIsReported == ~crashed
=============================================================================
