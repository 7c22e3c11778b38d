----------------------------- MODULE RelayServer -----------------------------
(***************************************************************************)
(* The relay as a COM server: RunServer, the class factory, the plugin     *)
(* objects mstsc activates and their channel callbacks.  COM counts the    *)
(* objects and locks (CoAddRefServerProcess); when the count drops to zero *)
(* it accepts no further activation and RunServer is told to return.       *)
(*                                                                         *)
(* Calls arrive on threads of COM's pool, so an object may be in several   *)
(* of them at once.  What a request does is left to BoundRelay; here a     *)
(* call only holds locks and references.                                   *)
(***************************************************************************)
EXTENDS Integers, FiniteSets

CONSTANTS Plugin,   \* plugin objects that mstsc processes may activate
          Channel,  \* channel callbacks that may be created
          Owner,    \* Owner[c]: the plugin that channel c belongs to
          Call      \* OnDataReceived calls a channel may be in at once

ASSUME HolderAssumption ==
  /\ IsFiniteSet(Plugin) /\ IsFiniteSet(Channel) /\ IsFiniteSet(Call)
  /\ Plugin \cap Channel = {} /\ "lock" \notin Plugin \cup Channel
  /\ Owner \in [Channel -> Plugin]
  /\ "nobody" \notin Call

VARIABLES
  main,      \* where RunServer is
  classes,   \* the class object: "none", "active", "suspended" or "revoked"
  shutdown,  \* g_shutdownEvent is set
  refs,      \* the count of CoAddRefServerProcess
  bootstrap, \* g_bootstrap
  life,      \* life[h]: where an object or the factory's lock is in its life
  late,      \* history: objects counted after the last release
  plugin,    \* plugin[p]: the members of RdpRelayPlugin and its calls
  channel    \* channel[c]: the members of RdpChannelCallback and its calls

countVars == <<refs, bootstrap, life, late>>
relayVars == <<main, classes, shutdown, countVars, plugin, channel>>

Holder == Plugin \cup Channel \cup {"lock"}
Up == main # "exited"
Alive(h) == Up /\ life[h] = "live"
Become(h, state) == life' = [life EXCEPT ![h] = state]

-----------------------------------------------------------------------------
(* RelayServerAddRef and RelayServerRelease                                *)

\* The last release suspends the class object and sets the event.
CoRelease ==
  /\ refs' = refs - 1
  /\ shutdown' = (shutdown \/ refs = 1)
  /\ classes' = IF refs = 1 /\ classes = "active" THEN "suspended" ELSE classes

CoAddRef(h) ==
  /\ Up /\ life[h] = "counting"
  /\ refs' = refs + 1
  /\ late' = IF shutdown THEN late \cup {h} ELSE late
  /\ Become(h, "exchanging")
  /\ UNCHANGED <<main, classes, shutdown, bootstrap, plugin, channel>>

\* Mutant: the flag is looked at and not taken.
LookAtBootstrap(h) ==
  /\ Up /\ life[h] = "exchanging"
  /\ Become(h, IF bootstrap THEN "releasing" ELSE "live")
  /\ UNCHANGED <<main, classes, shutdown, refs, bootstrap, late, plugin, channel>>

ExchangeBootstrap(h) ==
  /\ Up /\ life[h] = "exchanging"
  /\ bootstrap' = FALSE
  /\ Become(h, IF bootstrap THEN "releasing" ELSE "live")
  /\ UNCHANGED <<main, classes, shutdown, refs, late, plugin, channel>>

ReleaseBootstrap(h) ==
  /\ Up /\ life[h] = "releasing"
  /\ CoRelease
  /\ Become(h, "live")
  /\ UNCHANGED <<main, bootstrap, late, plugin, channel>>

RelayServerRelease(h) ==
  /\ Up /\ life[h] = "dying"
  /\ CoRelease
  /\ Become(h, IF h = "lock" THEN "none" ELSE "gone")
  /\ UNCHANGED <<main, bootstrap, late, plugin, channel>>

-----------------------------------------------------------------------------
(* RunServer                                                               *)

\* CoInitializeEx, the event or the identity window may fail.
AddBootstrapRef ==
  /\ main = "start"
  /\ \/ main' = "register" /\ refs' = refs + 1
     \/ main' = "exited" /\ UNCHANGED refs
  /\ UNCHANGED <<classes, shutdown, bootstrap, life, late, plugin, channel>>

\* Registered suspended, then resumed; each of the steps may fail.
RegisterClass ==
  /\ main = "register"
  /\ \/ classes' = "active" /\ main' = "wait" /\ UNCHANGED <<refs, shutdown>>
     \/ CoRelease /\ main' = "exited"
  /\ UNCHANGED <<bootstrap, life, late, plugin, channel>>

\* Mutant: the reference of the bootstrap is kept when no object comes.
KeepBootstrap ==
  /\ main = "wait" /\ ~shutdown
  /\ bootstrap' = FALSE
  /\ main' = "waitForever"
  /\ UNCHANGED <<classes, shutdown, refs, life, late, plugin, channel>>

\* 30 s without a shutdown.
BootstrapTimesOut ==
  /\ main = "wait" /\ ~shutdown
  /\ bootstrap' = FALSE
  /\ main' = IF bootstrap THEN "release" ELSE "waitForever"
  /\ UNCHANGED <<classes, shutdown, refs, life, late, plugin, channel>>

ReleaseUnused ==
  /\ main = "release"
  /\ CoRelease
  /\ main' = "waitForever"
  /\ UNCHANGED <<bootstrap, life, late, plugin, channel>>

ShutDown ==
  /\ main \in {"wait", "waitForever"} /\ shutdown
  /\ main' = "revoke"
  /\ UNCHANGED <<classes, shutdown, countVars, plugin, channel>>

Revoke ==
  /\ main = "revoke"
  /\ classes' = "revoked"
  /\ main' = "exited"
  /\ UNCHANGED <<shutdown, countVars, plugin, channel>>

RunServer ==
  AddBootstrapRef \/ RegisterClass \/ BootstrapTimesOut \/ ReleaseUnused \/ ShutDown \/ Revoke

-----------------------------------------------------------------------------
(* RelayClassFactory                                                       *)

\* COM hands a request to the factory while its class object is active; the
\* call may still be on its way when the class object is suspended.
Activate(p) ==
  /\ Up /\ classes = "active" /\ life[p] = "none"
  /\ Become(p, "arriving")
  /\ UNCHANGED <<main, classes, shutdown, refs, bootstrap, late, plugin, channel>>

CreateInstance(p) ==
  /\ Up /\ life[p] = "arriving"
  /\ \/ Become(p, "counting") /\ plugin' = [plugin EXCEPT ![p].held = {"client"}]
     \/ Become(p, "gone") /\ UNCHANGED plugin
  /\ UNCHANGED <<main, classes, shutdown, refs, bootstrap, late, channel>>

LockServer ==
  /\ Up
  /\ \/ classes = "active" /\ life["lock"] = "none" /\ Become("lock", "counting")
     \/ life["lock"] = "live" /\ Become("lock", "dying")
  /\ UNCHANGED <<main, classes, shutdown, refs, bootstrap, late, plugin, channel>>

-----------------------------------------------------------------------------
(* RdpRelayPlugin                                                          *)

OnlyPlugin == UNCHANGED <<main, classes, shutdown, countVars, channel>>
Releases(q) == [q EXCEPT !.owned = {}, !.held = @ \ {"listener"}]

\* Refused while it runs, when it has succeeded and after Terminated.
BeginInitialize(p) ==
  LET q == plugin[p] IN
  /\ Alive(p) /\ "client" \in q.held
  /\ q.initializing = "no" /\ ~q.stored /\ ~q.terminated
  /\ plugin' = [plugin EXCEPT ![p].initializing = "create", ![p].owned = {"manager"}]
  /\ OnlyPlugin

\* The listener keeps a reference to the plugin, its callback.
CreateListener(p) ==
  /\ Up /\ plugin[p].initializing = "create"
  /\ \/ plugin' = [plugin EXCEPT ![p].initializing = "store",
                                 ![p].owned = @ \cup {"listener"},
                                 ![p].held = @ \cup {"listener"}]
     \/ plugin' = [plugin EXCEPT ![p].initializing = "drop"]
  /\ OnlyPlugin

StoreListener(p) ==
  /\ Up /\ plugin[p].initializing = "store"
  /\ plugin' = [plugin EXCEPT
       ![p].initializing = IF plugin[p].terminated THEN "drop" ELSE "no",
       ![p].stored = ~plugin[p].terminated]
  /\ OnlyPlugin

DropListener(p) ==
  /\ Up /\ plugin[p].initializing = "drop"
  /\ plugin' = [plugin EXCEPT ![p] = [Releases(@) EXCEPT !.initializing = "no"]]
  /\ OnlyPlugin

Terminated(p) ==
  /\ Alive(p) /\ "client" \in plugin[p].held /\ ~plugin[p].releasing
  /\ plugin' = [plugin EXCEPT ![p].terminated = TRUE, ![p].stored = FALSE,
                              ![p].releasing = plugin[p].stored]
  /\ OnlyPlugin

ReleaseListener(p) ==
  /\ Up /\ plugin[p].releasing
  /\ plugin' = [plugin EXCEPT ![p] = [Releases(@) EXCEPT !.releasing = FALSE]]
  /\ OnlyPlugin

\* mstsc releases the plugin, or dies and all its references are run down.
ClientReleases(p) ==
  /\ Alive(p) /\ plugin[p].held # {}
  /\ \E kept \in {{}, plugin[p].held \ {"client"}} : plugin' = [plugin EXCEPT ![p].held = kept]
  /\ OnlyPlugin

InPluginCall(p) ==
  \/ plugin[p].initializing # "no" \/ plugin[p].releasing
  \/ \E c \in Channel : /\ Owner[c] = p
                        /\ life[c] \in {"accepted", "counting", "exchanging", "releasing"}

\* The last reference has gone: the destructor calls Terminated.
DestroyPlugin(p) ==
  /\ Alive(p) /\ plugin[p].held = {} /\ ~InPluginCall(p)
  /\ plugin' = [plugin EXCEPT ![p].terminated = TRUE, ![p].stored = FALSE,
                              ![p].owned = IF plugin[p].stored THEN {} ELSE @]
  /\ Become(p, "dying")
  /\ UNCHANGED <<main, classes, shutdown, refs, bootstrap, late, channel>>

-----------------------------------------------------------------------------
(* OnNewChannelConnection and RdpChannelCallback                           *)

OnlyChannel == UNCHANGED <<main, classes, shutdown, countVars, plugin>>

CheckTerminated(c) ==
  /\ Alive(Owner[c]) /\ plugin[Owner[c]].held # {} /\ life[c] = "none"
  /\ ~plugin[Owner[c]].terminated
  /\ Become(c, "accepted")
  /\ UNCHANGED <<main, classes, shutdown, refs, bootstrap, late, plugin, channel>>

\* The lock has been released: Terminated may have come in between.
OnNewChannelConnection(c) ==
  /\ Up /\ life[c] = "accepted"
  /\ \/ /\ Become(c, "counting")
        /\ channel' = [channel EXCEPT ![c].attached = TRUE, ![c].refs = 1, ![c].held = TRUE]
     \/ Become(c, "gone") /\ UNCHANGED channel
  /\ UNCHANGED <<main, classes, shutdown, refs, bootstrap, late, plugin>>

At(c, k, place) == Up /\ channel[c].call[k] = place

\* A call may reach the server because of a Write, which then waits for it.
Receive(c, k) ==
  /\ Alive(c) /\ channel[c].held /\ At(c, k, "idle")
  /\ \/ channel' = [channel EXCEPT ![c].call[k] = "lock"]
     \/ \E j \in Call : /\ At(c, j, "write") /\ channel[c].awaits[j] = "nobody"
                        /\ channel' = [channel EXCEPT ![c].call[k] = "lock",
                                                      ![c].awaits[j] = k]
  /\ OnlyChannel

LockRequest(c, k) ==
  /\ At(c, k, "lock") /\ channel[c].request = "nobody"
  /\ channel' = [channel EXCEPT ![c].call[k] = "take", ![c].request = k]
  /\ OnlyChannel

\* Mutant: no reference of its own is taken.
BorrowChannel(c, k) ==
  /\ At(c, k, "take")
  /\ channel' = [channel EXCEPT ![c].call[k] = IF channel[c].attached THEN "work" ELSE "idle",
                                ![c].request = IF channel[c].attached THEN k ELSE "nobody"]
  /\ OnlyChannel

TakeChannelRef(c, k) ==
  /\ At(c, k, "take")
  /\ channel' = IF channel[c].attached
       THEN [channel EXCEPT ![c].call[k] = "work", ![c].refs = @ + 1]
       ELSE [channel EXCEPT ![c].call[k] = "idle", ![c].request = "nobody"]
  /\ OnlyChannel

\* An invalid request returns at once, any other is answered by Write.
HandleRequest(c, k) ==
  /\ At(c, k, "work")
  /\ \E next \in {"write", "release"} :
       channel' = [channel EXCEPT ![c].call[k] = next, ![c].request = "nobody"]
  /\ OnlyChannel

WriteReturns(c, k) ==
  LET awaited == channel[c].awaits[k] IN
  /\ At(c, k, "write")
  /\ awaited # "nobody" => At(c, awaited, "idle")
  /\ channel' = [channel EXCEPT ![c].call[k] = "release", ![c].awaits[k] = "nobody"]
  /\ OnlyChannel

\* The destructors of the call's locals.
ReleaseChannelRef(c, k) ==
  /\ At(c, k, "release")
  /\ channel' = [channel EXCEPT ![c].call[k] = "idle", ![c].refs = @ - 1,
                                ![c].request = IF @ = k THEN "nobody" ELSE @]
  /\ OnlyChannel

\* OnClose takes only m_mutex, which no call holds while it waits.
OnClose(c) ==
  /\ Alive(c) /\ channel[c].held /\ ~channel[c].closing
  /\ channel' = [channel EXCEPT ![c].attached = FALSE, ![c].closing = channel[c].attached]
  /\ OnlyChannel

ReleaseClosed(c) ==
  /\ Up /\ channel[c].closing
  /\ channel' = [channel EXCEPT ![c].closing = FALSE, ![c].refs = @ - 1]
  /\ OnlyChannel

\* mstsc is done with the callback, closed or not.
ReleaseCallback(c) ==
  /\ Alive(c) /\ channel[c].held
  /\ channel' = [channel EXCEPT ![c].held = FALSE]
  /\ OnlyChannel

DestroyCallback(c) ==
  /\ Alive(c) /\ ~channel[c].held /\ ~channel[c].closing
  /\ \A k \in Call : At(c, k, "idle")
  /\ channel' = [channel EXCEPT ![c].attached = FALSE,
                                ![c].refs = IF channel[c].attached THEN @ - 1 ELSE @]
  /\ Become(c, "dying")
  /\ UNCHANGED <<main, classes, shutdown, refs, bootstrap, late, plugin>>

-----------------------------------------------------------------------------

RelayInit ==
  /\ main = "start" /\ classes = "none" /\ shutdown = FALSE
  /\ refs = 0 /\ bootstrap = TRUE /\ life = [h \in Holder |-> "none"] /\ late = {}
  /\ plugin = [p \in Plugin |->
       [initializing |-> "no", terminated |-> FALSE, stored |-> FALSE, releasing |-> FALSE,
        owned |-> {},   \* mstsc's objects the plugin has to release
        held |-> {}]]   \* references to it that mstsc has
  /\ channel = [c \in Channel |->
       [attached |-> FALSE, refs |-> 0, request |-> "nobody", closing |-> FALSE,
        held |-> FALSE, call |-> [k \in Call |-> "idle"],
        awaits |-> [k \in Call |-> "nobody"]]]

Counting(h) ==
  CoAddRef(h) \/ ExchangeBootstrap(h) \/ ReleaseBootstrap(h) \/ RelayServerRelease(h)
PluginCall(p) == CreateListener(p) \/ StoreListener(p) \/ DropListener(p) \/ ReleaseListener(p)
ChannelCall(c) == OnNewChannelConnection(c) \/ ReleaseClosed(c)
DataCall(c, k) ==
  \/ LockRequest(c, k) \/ TakeChannelRef(c, k) \/ HandleRequest(c, k)
  \/ WriteReturns(c, k) \/ ReleaseChannelRef(c, k)

RelayNext ==
  \/ RunServer \/ LockServer
  \/ \E h \in Holder : Counting(h)
  \/ \E p \in Plugin : \/ Activate(p) \/ CreateInstance(p) \/ BeginInitialize(p)
                       \/ PluginCall(p) \/ Terminated(p) \/ ClientReleases(p)
                       \/ DestroyPlugin(p)
  \/ \E c \in Channel : \/ CheckTerminated(c) \/ ChannelCall(c) \/ OnClose(c)
                        \/ ReleaseCallback(c) \/ DestroyCallback(c)
                        \/ \E k \in Call : Receive(c, k) \/ DataCall(c, k)

RelaySpec == RelayInit /\ [][RelayNext]_relayVars

\* The threads of the server run; COM's calls return.
RelayFairness ==
  /\ WF_relayVars(RunServer)
  /\ \A h \in Holder : WF_relayVars(Counting(h))
  /\ \A p \in Plugin : WF_relayVars(CreateInstance(p) \/ PluginCall(p) \/ DestroyPlugin(p))
  /\ \A c \in Channel : /\ WF_relayVars(ChannelCall(c))
                        /\ WF_relayVars(DestroyCallback(c))
                        /\ \A k \in Call : WF_relayVars(DataCall(c, k))

-----------------------------------------------------------------------------
(* Properties                                                              *)

Counted(h) == life[h] \in {"exchanging", "releasing", "live", "dying"}

(* "The bootstrap reference keeps the server available until its first     *)
(* object (or startup timeout)" and "COM coordinates last-reference        *)
(* shutdown with SCM activation": RunServer does not return under an       *)
(* object or a lock, unless one that was still on its way at the shutdown. *)
ServerOutlivesItsObjects ==
  main \in {"revoke", "exited"} => \A h \in Holder : Counted(h) => h \in late

(* A plugin that has been terminated keeps no listener and no manager,     *)
(* whichever of Initialize and Terminated comes first; a channel is held   *)
(* while it is written to, although Write may close it, and is given back. *)
ReferencesBalance ==
  /\ \A p \in Plugin :
       (plugin[p].terminated /\ plugin[p].initializing = "no" /\ ~plugin[p].releasing)
         => plugin[p].owned = {}
  /\ \A c \in Channel :
       /\ (\E k \in Call : At(c, k, "write")) => channel[c].refs > 0
       /\ life[c] \in {"dying", "gone"} => channel[c].refs = 0
=============================================================================
