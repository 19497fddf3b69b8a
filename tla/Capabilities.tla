---------------------------- MODULE Capabilities ----------------------------
(***************************************************************************)
(* IRCv3 capabilities: the manager and the CAP command (modules/cap.cpp),  *)
(* the capability objects that modules own (include/modules/cap.h) and the *)
(* notices that ircv3_capnotify sends when they come and go.               *)
(*                                                                         *)
(* Every load of a module makes a capability object.  An unloaded module   *)
(* is destroyed later, when the action that unloaded it is culled; only    *)
(* then does its capability leave the manager.  The manager itself stays   *)
(* loaded.  That CAP holds the registration of a client is in ConnectHolds.*)
(***************************************************************************)
EXTENDS Integers, Sequences, FiniteSets

CONSTANTS
    CapMod,         \* modules with one capability each, which has their name
    Notify,         \* the one among them that is ircv3_capnotify
    Configured,     \* those that switch their capability on and off on a rehash
    CapUser,
    CapRequests,    \* what CAP REQ asks: sequences of [cap, remove]
    MaxCaps,        \* MAX_CAPS
    MaxCapObjects   \* bound: capability objects that are ever made

VARIABLES
    capObj,         \* the objects: module, life, bit (0: not registered)
    caps,           \* ManagerImpl::caps, 0 for a name that is not there
    usercaps,       \* capext of each user, as a set of bits
    cap302,         \* CAP_302_BIT of each user
    localUsers,     \* the clients that are connected
    capTold,        \* history: what each client was told that it has
    capMissed,      \* history: what went away without a notice to the client
    displaced,      \* history: modules whose new object found the name of the old one taken
    crashed         \* capnotify used a module that no longer exists

capVars == <<capObj, caps, usercaps, cap302, localUsers, capTold, capMissed, displaced, crashed>>

Bits == 1..MaxCaps
Objects == DOMAIN capObj

ASSUME CapAssumption ==
    /\ Notify \in CapMod /\ Configured \subseteq CapMod
    /\ CapRequests \subseteq Seq([cap : CapMod, remove : BOOLEAN])
    /\ MaxCaps \in Nat

CapInit ==
    /\ capObj = <<>>
    /\ caps = [m \in CapMod |-> 0]
    /\ usercaps = [u \in CapUser |-> {}]
    /\ cap302 = [u \in CapUser |-> FALSE]
    /\ localUsers = {}
    /\ capTold = [u \in CapUser |-> {}] /\ capMissed = [u \in CapUser |-> {}]
    /\ displaced = {}
    /\ crashed = FALSE

LoadedObjects(m) == {o \in Objects : capObj[o].mod = m /\ capObj[o].life = "loaded"}

(* Capability::IsEnabled *)
CapIsEnabled(o, u) == capObj[o].bit \in usercaps[u]

(* HandleList for CAP LIST: what the manager finds in the user's mask *)
Enabled(u) == {m \in CapMod : caps[m] # 0 /\ CapIsEnabled(caps[m], u)}

-----------------------------------------------------------------------------
(* The manager *)

(* AllocateBit: the lowest bit that no capability in the map has *)
UsedBits == {capObj[caps[m]].bit : m \in {x \in CapMod : caps[x] # 0}}
FreeBits == Bits \ UsedBits
AllocateBit == CHOOSE b \in FreeBits : \A c \in FreeBits : b <= c

(* AddCap for the object o of objs that is not registered: emplace() leaves *)
(* an object alone that has the name already.                               *)
AddCap(objs, o) ==
    LET m == objs[o].mod IN
    /\ capObj' = [objs EXCEPT ![o].bit = AllocateBit]
    /\ caps' = [caps EXCEPT ![m] = IF @ = 0 THEN o ELSE @]
    /\ displaced' = IF caps[m] = 0 THEN displaced ELSE displaced \cup {m}

(* An instance of ircv3_capnotify hears of a capability that is not its own *)
Notifies(o) == LoadedObjects(Notify) \ {o} # {}

(* CapNotify::Send of a DEL: to whom *)
Notified(u) == \E n \in LoadedObjects(Notify) : CapIsEnabled(n, u)

(* DelCap turns the capability off for everybody, or forgets to *)
TurnedOffMutant(o) == usercaps
TurnedOff(o) ==
    [u \in CapUser |-> IF u \in localUsers THEN usercaps[u] \ {capObj[o].bit} ELSE usercaps[u]]

(* DelCap: listeners hear of it first, then every local user loses it *)
DelCap(o) ==
    LET m == capObj[o].mod
        hears == {u \in localUsers : Notifies(o) /\ Notified(u)}
    IN  /\ usercaps' = TurnedOff(o)
        /\ caps' = [caps EXCEPT ![m] = 0]
        /\ capTold' = [u \in CapUser |-> IF u \in hears THEN capTold[u] \ {m} ELSE capTold[u]]
        /\ capMissed' = [u \in CapUser |-> IF u \in hears THEN capMissed[u] \ {m}
                                        ELSE capMissed[u] \cup (capTold[u] \cap {m})]

-----------------------------------------------------------------------------
(* Modules *)

NewObject(m) == Append(capObj, [mod |-> m, life |-> "loaded", bit |-> 0])

(* Loading a module: RegisterService, or no load when there is no bit left *)
LoadCapModule(m) ==
    /\ ~crashed
    /\ LoadedObjects(m) = {}
    /\ Len(capObj) < MaxCapObjects
    /\ FreeBits # {}
    /\ AddCap(NewObject(m), Len(capObj) + 1)
    /\ UNCHANGED <<usercaps, cap302, localUsers, capTold, capMissed, crashed>>

(* DoSafeUnload: the services go, the object and its registration stay *)
UnloadCapModule(o) ==
    /\ ~crashed
    /\ capObj[o].life = "loaded"
    /\ capObj' = [capObj EXCEPT ![o].life = "unloaded"]
    /\ UNCHANGED <<caps, usercaps, cap302, localUsers, capTold, capMissed, displaced, crashed>>

(* The module is destroyed, and ~Capability takes the capability away.     *)
(* OnCapAddDel of capnotify locks the module for its name, and there is    *)
(* none any more.                                                          *)
DestroyCapModule(o) ==
    /\ ~crashed
    /\ capObj[o].life = "unloaded"
    /\ capObj' = [capObj EXCEPT ![o].life = "dead", ![o].bit = 0]
    /\ crashed' = (capObj[o].bit # 0 /\ Notifies(o))
    /\ \/ /\ capObj[o].bit = 0 \/ crashed'
          /\ UNCHANGED <<caps, usercaps, capTold, capMissed>>
       \/ /\ capObj[o].bit # 0 /\ ~crashed'
          /\ DelCap(o)
    /\ UNCHANGED <<cap302, localUsers, displaced>>

(* ReloadAction: the users of the capability are saved and restored to     *)
(* whatever has the name afterwards, which is the old object.              *)
ReloadCapModule(o) ==
    LET m == capObj[o].mod
        objs == [NewObject(m) EXCEPT ![o].life = "unloaded"]
        users == {u \in localUsers : caps[m] = o /\ CapIsEnabled(o, u)}
    IN  /\ ~crashed
        /\ capObj[o].life = "loaded"
        /\ Len(capObj) < MaxCapObjects
        /\ FreeBits # {}
        /\ AddCap(objs, Len(objs))
        /\ usercaps' = [u \in CapUser |-> IF u \in users
                                            THEN usercaps[u] \cup {capObj'[caps'[m]].bit}
                                            ELSE usercaps[u]]
        /\ UNCHANGED <<cap302, localUsers, capTold, capMissed, crashed>>

(* SetActive from ReadConfig, on and off *)
SetActiveOn(o) ==
    /\ ~crashed
    /\ capObj[o].mod \in Configured /\ capObj[o].life = "loaded"
    /\ capObj[o].bit = 0
    /\ FreeBits # {}
    /\ AddCap(capObj, o)
    /\ UNCHANGED <<usercaps, cap302, localUsers, capTold, capMissed, crashed>>

SetActiveOff(o) ==
    /\ ~crashed
    /\ capObj[o].mod \in Configured /\ capObj[o].life = "loaded"
    /\ capObj[o].bit # 0
    /\ DelCap(o)
    /\ capObj' = [capObj EXCEPT ![o].bit = 0]
    /\ UNCHANGED <<cap302, localUsers, displaced, crashed>>

-----------------------------------------------------------------------------
(* Clients and the CAP command *)

Connects(u) ==
    /\ ~crashed /\ u \notin localUsers
    /\ localUsers' = localUsers \cup {u}
    /\ UNCHANGED <<capObj, caps, usercaps, cap302, capTold, capMissed, displaced, crashed>>

(* The user quits, and its extensions go with it *)
Quits(u) ==
    /\ ~crashed /\ u \in localUsers
    /\ localUsers' = localUsers \ {u}
    /\ usercaps' = [usercaps EXCEPT ![u] = {}]
    /\ cap302' = [cap302 EXCEPT ![u] = FALSE]
    /\ capTold' = [capTold EXCEPT ![u] = {}] /\ capMissed' = [capMissed EXCEPT ![u] = {}]
    /\ UNCHANGED <<capObj, caps, displaced, crashed>>

(* CAP LS: OnList of cap-notify turns it on for a client of version 302 *)
CapLs(u, version302) ==
    LET is302 == cap302[u] \/ version302
        implied == IF is302 /\ caps[Notify] # 0 THEN {Notify} ELSE {}
    IN  /\ ~crashed /\ u \in localUsers
        /\ cap302' = [cap302 EXCEPT ![u] = is302]
        /\ usercaps' = [usercaps EXCEPT ![u] = @ \cup {capObj[caps[m]].bit : m \in implied}]
        /\ capTold' = [capTold EXCEPT ![u] = @ \cup implied]
        /\ capMissed' = [capMissed EXCEPT ![u] = @ \ implied]
        /\ UNCHANGED <<capObj, caps, localUsers, displaced, crashed>>

(* CAP LIST tells the client what it has *)
CapList(u) ==
    /\ ~crashed /\ u \in localUsers
    /\ capTold' = [capTold EXCEPT ![u] = Enabled(u)]
    /\ capMissed' = [capMissed EXCEPT ![u] = {}]
    /\ UNCHANGED <<capObj, caps, usercaps, cap302, localUsers, displaced, crashed>>

(* CanRequest: a change that changes nothing, or one that OnRequest allows *)
(* (CapNotify::OnRequest).                                                 *)
CanRequest(u, mask, r) ==
    \/ (capObj[caps[r.cap]].bit \in mask) # r.remove
    \/ r.cap # Notify \/ ~r.remove \/ ~cap302[u]

(* HandleReq: the masks after each token, as long as all are granted *)
ReqMasks(u, req) ==
    LET mask[k \in 0..Len(req)] ==
            IF k = 0 THEN usercaps[u]
            ELSE LET b == {capObj[caps[req[k].cap]].bit} IN
                 IF req[k].remove THEN mask[k - 1] \ b ELSE mask[k - 1] \cup b
    IN  mask

(* CAP REQ: all of it or nothing *)
CapReq(u, req) ==
    LET known == \A k \in DOMAIN req : caps[req[k].cap] # 0
        granted == known /\ \A k \in DOMAIN req : CanRequest(u, ReqMasks(u, req)[k - 1], req[k])
        last(m) == CHOOSE k \in DOMAIN req :
                       req[k].cap = m /\ \A j \in DOMAIN req : req[j].cap = m => j <= k
        named == {req[k].cap : k \in DOMAIN req}
        added == {m \in named : ~req[last(m)].remove}
    IN  /\ ~crashed /\ u \in localUsers
        /\ \/ /\ granted
              /\ usercaps' = [usercaps EXCEPT ![u] = ReqMasks(u, req)[Len(req)]]
              /\ capTold' = [capTold EXCEPT ![u] = (@ \ named) \cup added]
              /\ capMissed' = [capMissed EXCEPT ![u] = @ \ named]
           \/ ~granted /\ UNCHANGED <<usercaps, capTold, capMissed>>
        /\ UNCHANGED <<capObj, caps, cap302, localUsers, displaced, crashed>>

(* CAP CLEAR, which clients of version 302 do not have *)
CapClear(u) ==
    /\ ~crashed /\ u \in localUsers
    /\ \/ /\ ~cap302[u]
          /\ usercaps' = [usercaps EXCEPT ![u] = {}]
          /\ capTold' = [capTold EXCEPT ![u] = @ \ Enabled(u)]
       \/ cap302[u] /\ UNCHANGED <<usercaps, capTold>>
    /\ UNCHANGED <<capObj, caps, cap302, localUsers, capMissed, displaced, crashed>>

-----------------------------------------------------------------------------
CapNext ==
    \/ \E m \in CapMod : LoadCapModule(m)
    \/ \E o \in Objects : \/ UnloadCapModule(o)
                          \/ DestroyCapModule(o)
                          \/ ReloadCapModule(o)
                          \/ SetActiveOn(o)
                          \/ SetActiveOff(o)
    \/ \E u \in CapUser : \/ Connects(u)
                          \/ Quits(u)
                          \/ \E v \in BOOLEAN : CapLs(u, v)
                          \/ CapList(u)
                          \/ \E req \in CapRequests : CapReq(u, req)
                          \/ CapClear(u)

CapSpec == CapInit /\ [][CapNext]_capVars

-----------------------------------------------------------------------------
CapTypeOK ==
    /\ \A o \in Objects : /\ capObj[o].mod \in CapMod
                          /\ capObj[o].life \in {"loaded", "unloaded", "dead"}
                          /\ capObj[o].bit \in 0..MaxCaps
    /\ usercaps \in [CapUser -> SUBSET Bits]
    /\ \A u \in CapUser \ localUsers : usercaps[u] = {} /\ ~cap302[u]

(* A bit belongs to one capability at a time, and no user has a bit that   *)
(* belongs to none, so that a capability that is given the bit of one that *)
(* is gone starts with no users (AllocateBit and DelCap).                  *)
BitsKept ==
    /\ \A m, n \in CapMod :
         /\ caps[m] # 0 => capObj[caps[m]].life # "dead" /\ capObj[caps[m]].bit # 0
         /\ caps[m] # 0 /\ caps[n] # 0 /\ m # n => capObj[caps[m]].bit # capObj[caps[n]].bit
    /\ \A u \in CapUser : usercaps[u] \subseteq UsedBits

(* The server sends a client what the client was told that it has: through *)
(* requests of several changes, capabilities that come and go and implied  *)
(* ones, a client and the server disagree only about capabilities that     *)
(* went away while the client had no cap-notify.                           *)
ClientToldRight ==
    \A u \in CapUser : Enabled(u) = capTold[u] \ capMissed[u]

(* BitsKept and ClientToldRight, up to the reload of a module or the load  *)
(* of one whose old instance is still there: the new object finds the name *)
(* of the old one in the map, and has a bit that the map does not know.    *)
(* A server that crashed keeps nothing.                                    *)
CapsKept == CapTypeOK /\ (displaced = {} /\ ~crashed => BitsKept /\ ClientToldRight)

(* modules/ircv3_capnotify.cpp:143, of the module that owns a capability   *)
(* which comes or goes: "The lock here should always succeed because its   *)
(* for a module which is adding or deleting a cap."                        *)
CapModuleLives == ~crashed
=============================================================================
