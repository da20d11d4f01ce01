----------------------------- MODULE Signaling -----------------------------
(***************************************************************************)
(* The signaling server: the message handlers of ws/handler.ts, the        *)
(* session manager, and the in-memory Redis adapter they keep their state  *)
(* in, on top of the connection manager.                                   *)
(*                                                                         *)
(* A handler awaits only promises that are already resolved, so it runs to *)
(* its end before the next network event: one message, one step.  (Several *)
(* frames of one socket that arrive in one TCP chunk may interleave at     *)
(* these awaits; the model leaves that out.)                               *)
(*                                                                         *)
(* out holds the session frames and rejections the last step wrote;        *)
(* acknowledgements are left out, and with them device:heartbeat, which    *)
(* changes no state.  learned is what the applications remember: a session *)
(* id is a uuid, so an application names one only after a frame told it.   *)
(* Of a record only the participants are kept: the server writes its       *)
(* status, times and metrics, and never reads them.                        *)
(***************************************************************************)
EXTENDS ConnectionManager, Naturals

CONSTANTS
  SessionIds, NoSession,
  Ips, IpOf,            \* [Sockets -> Ips]: clientIp of the connection
  PASSCODE_RATE_LIMIT,
  MaxSubmissions        \* bound: submissions counted per address

VARIABLES
  online,      \* keys of onlineDevices
  subscribed,  \* devices whose channel has a listener
  sessions,    \* [SessionIds -> Record \cup {NoSession}]
  locks,       \* [Devices \X Devices -> SessionIds \cup {NoSession}], by host and client
  rateLimits,  \* [Ips -> Nat]
  learned,     \* {<<device, session>>}: the device's application was told the session id
  out          \* {<<socket, frame>>}

storeVars == <<online, subscribed, sessions, locks, rateLimits>>
signalingVars == <<managerVars, storeVars, learned, out>>

Record == [host: Devices \cup {NoDevice}, client: Devices \cup {NoDevice}]

ASSUME SignalingAssumption ==
  /\ NoSession \notin SessionIds \cup Record
  /\ IpOf \in [Sockets -> Ips]
  /\ PASSCODE_RATE_LIMIT \in Nat /\ MaxSubmissions \in Nat

Frame == [type: {"forward", "submit", "accepted", "rejected", "rate_limited", "not_found"},
          session: SessionIds]
         \cup [type: {"relay", "ended"}, session: SessionIds, from: Devices]
         \cup [type: {"offline"}, device: Devices]

SignalingTypeOK ==
  /\ TypeOK
  /\ online \subseteq Devices /\ subscribed \subseteq Devices
  /\ sessions \in [SessionIds -> Record \cup {NoSession}]
  /\ locks \in [Devices \X Devices -> SessionIds \cup {NoSession}]
  /\ rateLimits \in [Ips -> 0..MaxSubmissions]
  /\ learned \subseteq Devices \X SessionIds
  /\ out \subseteq Sockets \X Frame

NoSessions == [x \in SessionIds |-> NoSession]
NoLocks == [p \in Devices \X Devices |-> NoSession]
NoCounts == [i \in Ips |-> 0]

SignalingInit ==
  /\ Init
  /\ online = {} /\ subscribed = {}
  /\ sessions = NoSessions /\ locks = NoLocks /\ rateLimits = NoCounts
  /\ learned = {}
  /\ out = {}

-----------------------------------------------------------------------------
(* RedisAdapter *)

Exists(x) == x \in SessionIds /\ sessions[x] # NoSession

(* Slips: a record without participant fields; the lock keyed the other way  *)
(* round; a relay that goes back to where it came from.                      *)
StoredPartial(x) == IF Exists(x) THEN sessions[x] ELSE [host |-> NoDevice]
AcquireLockSwapped(h, c, x) ==
  locks' = [locks EXCEPT ![<<c, h>>] = IF @ = NoSession THEN x ELSE @]
OtherSideSwapped(s, x) == IF SenderDevice(s) = sessions[x].host THEN sessions[x].host
                                                                ELSE sessions[x].client

(* updateSession merges into what is there, or into {}: for an unknown id a  *)
(* record appears that has no participants.                                  *)
Stored(x) == IF Exists(x) THEN sessions[x] ELSE [host |-> NoDevice, client |-> NoDevice]
UpdateSession(x) == sessions' = [sessions EXCEPT ![x] = Stored(x)]

(* acquireLock; the time to live is ignored, and nothing releases the lock.  *)
AcquireLock(h, c, x) ==
  locks' = [locks EXCEPT ![<<h, c>>] = IF @ = NoSession THEN x ELSE @]

(* createSession: a held lock is only logged, "allow anyway". *)
CreateSession(h, c, x) ==
  /\ AcquireLock(h, c, x)
  /\ sessions' = [sessions EXCEPT ![x] = [host |-> h, client |-> c]]

(* publish runs the channel's listeners at once, in this process; each one   *)
(* tries sendToDevice again.                                                 *)
Publish(d, m) == IF d \in subscribed THEN SendToDevice(d, m) ELSE {}

Deliver(d, m) ==
  LET direct == SendToDevice(d, m) IN IF direct # {} THEN direct ELSE Publish(d, m)

-----------------------------------------------------------------------------
(* MessageHandler *)

(* An application names a session it was told of; a socket that has not      *)
(* registered may belong to any of them.                                     *)
Names(s, x) ==
  /\ Receiving(s)
  /\ \E d \in Devices : <<d, x>> \in learned /\ SenderDevice(s) \in {d, NoDevice}

About(type, x) == [type |-> type, session |-> x]
From(s, type, x) == [type |-> type, session |-> x, from |-> SenderDevice(s)]
Tell(d, x, frames) ==
  learned' = learned \cup {p \in {<<d, x>>} : \E f \in frames : f[1] \notin silent}
OtherSide(s, x) == IF SenderDevice(s) = sessions[x].host THEN sessions[x].client
                                                         ELSE sessions[x].host

HandleDeviceRegister(s, d) ==
  /\ \/ RegisterDevice(s, d) /\ online' = online \cup {d}
     \/ Receiving(s) /\ s \notin connections /\ UNCHANGED <<managerVars, online>>
  /\ subscribed' = subscribed \cup {d}
  /\ out' = {}
  /\ UNCHANGED <<sessions, locks, rateLimits, learned>>

(* connection:request of client c for host h, refused *)
RejectOffline(s, h) ==
  /\ Receiving(s)
  /\ ~IsDeviceConnected(h) /\ h \notin online
  /\ out' = SendToSocket(s, [type |-> "offline", device |-> h])
  /\ UNCHANGED <<managerVars, storeVars, learned>>

(* connection:request of client c for host h, with a fresh session id.  An   *)
(* application that registered names itself as the client; nothing keeps it  *)
(* from asking for itself.                                                   *)
HandleConnectionRequest(s, h, c, x) ==
  /\ Receiving(s) /\ SenderDevice(s) \in {c, NoDevice}
  /\ IsDeviceConnected(h) \/ h \in online
  /\ ~Exists(x) /\ \A d \in Devices : <<d, x>> \notin learned
  /\ CreateSession(h, c, x)
  /\ out' = Deliver(h, About("forward", x))
  /\ Tell(h, x, out')
  /\ UNCHANGED <<managerVars, online, subscribed, rateLimits>>

HandlePasscodeSubmit(s, x) ==
  LET ip == IpOf[s]
  IN  /\ Names(s, x)
      /\ rateLimits[ip] < MaxSubmissions
      /\ rateLimits' = [rateLimits EXCEPT ![ip] = @ + 1]
      /\ out' = IF rateLimits'[ip] > PASSCODE_RATE_LIMIT
                THEN SendToSocket(s, About("rate_limited", x))
                ELSE IF ~Exists(x) THEN SendToSocket(s, About("not_found", x))
                ELSE Deliver(sessions[x].host, About("submit", x))
      /\ UNCHANGED <<managerVars, online, subscribed, sessions, locks, learned>>

HandleConnectionAccepted(s, x) ==
  /\ Names(s, x)
  /\ Exists(x)
  /\ UpdateSession(x)
  /\ out' = Deliver(sessions[x].client, About("accepted", x))
  /\ Tell(sessions[x].client, x, out')
  /\ UNCHANGED <<managerVars, online, subscribed, locks, rateLimits>>

HandleConnectionRejected(s, x) ==
  /\ Names(s, x)
  /\ Exists(x)
  /\ UpdateSession(x)
  /\ out' = SendToDevice(sessions[x].client, About("rejected", x))
  /\ Tell(sessions[x].client, x, out')
  /\ UNCHANGED <<managerVars, online, subscribed, locks, rateLimits>>

HandleWebRTCRelay(s, x) ==
  /\ Names(s, x)
  /\ Exists(x)
  /\ SenderDevice(s) # NoDevice
  /\ out' = Deliver(OtherSide(s, x), From(s, "relay", x))
  /\ UNCHANGED <<managerVars, storeVars, learned>>

(* connection:accepted and the WebRTC messages for a session that is gone    *)
SessionNotFound(s, x) ==
  /\ Names(s, x)
  /\ ~Exists(x)
  /\ out' = SendToSocket(s, About("not_found", x))
  /\ UNCHANGED <<managerVars, storeVars, learned>>

HandleSessionStarted(s, x) ==
  /\ Names(s, x)
  /\ UpdateSession(x)
  /\ out' = {}
  /\ UNCHANGED <<managerVars, online, subscribed, locks, rateLimits, learned>>

(* updates first, then reads the session back to find the other side         *)
HandleSessionEnded(s, x) ==
  /\ Names(s, x)
  /\ UpdateSession(x)
  /\ out' = IF Exists(x) /\ SenderDevice(s) # NoDevice
            THEN SendToDevice(OtherSide(s, x), From(s, "ended", x)) ELSE {}
  /\ UNCHANGED <<managerVars, online, subscribed, locks, rateLimits, learned>>

HandleQualityReport(s, x) ==
  /\ Names(s, x)
  /\ UpdateSession(x)
  /\ out' = {}
  /\ UNCHANGED <<managerVars, online, subscribed, locks, rateLimits, learned>>

-----------------------------------------------------------------------------
(* server.ts *)

(* The connection manager's own steps leave the store alone: no path tells   *)
(* it that a device went away.  To the handlers, a sweep that drops a socket *)
(* is PeerGone and then HandleDisconnection, so the sweeps and their pongs   *)
(* are left to ConnectionManager.                                            *)
ConnectionStep ==
  /\ \E s \in Sockets : \/ HandleNewConnection(s)
                        \/ HandleDisconnection(s)
                        \/ PeerGone(s)
                        \/ GoSilent(s)
  /\ out' = {}
  /\ UNCHANGED <<storeVars, learned>>

(* redis.disconnect drops the listeners. *)
ServerShutdown ==
  /\ Shutdown
  /\ subscribed' = {}
  /\ out' = {}
  /\ UNCHANGED <<online, sessions, locks, rateLimits, learned>>

(* The store lives in the process. *)
ServerRestart ==
  /\ Restart
  /\ online' = {} /\ subscribed' = {}
  /\ sessions' = NoSessions /\ locks' = NoLocks /\ rateLimits' = NoCounts
  /\ out' = {}
  /\ UNCHANGED learned

HandleMessage(s) ==
  \/ \E d \in Devices : HandleDeviceRegister(s, d)
  \/ \E h \in Devices : RejectOffline(s, h)
  \/ \E h, c \in Devices, x \in SessionIds : HandleConnectionRequest(s, h, c, x)
  \/ \E x \in SessionIds :
       \/ HandlePasscodeSubmit(s, x)
       \/ HandleConnectionAccepted(s, x)
       \/ HandleConnectionRejected(s, x)
       \/ HandleWebRTCRelay(s, x)
       \/ SessionNotFound(s, x)
       \/ HandleSessionStarted(s, x)
       \/ HandleSessionEnded(s, x)
       \/ HandleQualityReport(s, x)

SignalingNext ==
  \/ \E s \in Sockets : HandleMessage(s)
  \/ ConnectionStep
  \/ ServerShutdown
  \/ ServerRestart

SignalingSpec == SignalingInit /\ [][SignalingNext]_signalingVars

-----------------------------------------------------------------------------
(* Properties *)

(* A frame about a session goes to the tracked socket of the participant it  *)
(* is meant for: requests and passcodes to the host, answers to the client,  *)
(* and what one participant relays to the other one; it comes back only in a *)
(* session of a device with itself.  It needs the index (connection.ts) and  *)
(* the session record (manager.ts) to agree on who is who while devices      *)
(* reconnect.  Only a socket that announced two devices may get the frames   *)
(* of the first while it speaks for the second.                              *)
FramesReachTheirSide ==
  \A p \in out :
    LET s == p[1]
        f == p[2]
    IN  f.type \notin {"offline", "rate_limited", "not_found"} =>
          /\ s \in connections /\ Exists(f.session)
          /\ s \in Rebinders \/
             LET x == sessions[f.session]
             IN  CASE f.type \in {"forward", "submit"} -> deviceOf[s] = x.host
                   [] f.type \in {"accepted", "rejected"} -> deviceOf[s] = x.client
                   [] OTHER -> /\ deviceOf[s] \in {x.host, x.client}
                               /\ deviceOf[s] = f.from => x.host = x.client

(* A socket through which device d can be spoken to. *)
Speaking(s, d) == wsState[s] = "open" /\ deviceOf[s] = d

(* The step by which socket s has something of session x passed on to d.     *)
PassedOn(s, x, d) ==
  \/ \E c \in Devices : HandleConnectionRequest(s, d, c, x)
  \/ /\ Exists(x)
     /\ \/ /\ d = sessions[x].host
           /\ rateLimits[IpOf[s]] < PASSCODE_RATE_LIMIT /\ HandlePasscodeSubmit(s, x)
        \/ /\ d = sessions[x].client
           /\ HandleConnectionAccepted(s, x) \/ HandleConnectionRejected(s, x)
        \/ /\ SenderDevice(s) # NoDevice /\ d = OtherSide(s, x)
           /\ HandleWebRTCRelay(s, x) \/ HandleSessionEnded(s, x)

(* What one side says to the other is said once, and never again: so it is   *)
(* written to every socket the other side has open at that moment, a request *)
(* and its passcode to the host, the answer to the client, relays and the    *)
(* end to the other side.  A reconnect, or the late close of an older        *)
(* socket, never cuts the two off (handler.ts:198, 232, 258, 279, 298, 347). *)
NothingIsLost ==
  [][\A t \in Sockets, d \in Devices : Speaking(t, d) =>
       \A s \in Sockets, x \in SessionIds :
         PassedOn(s, x, d) => \E p \in out' : p[1] = t]_signalingVars

(* The lock of a pair is held by a session of this very pair, from the first *)
(* session on (manager.ts:40-44).                                            *)
LockFollowsPair ==
  /\ \A h, c \in Devices :
       Exists(locks[h, c]) => /\ sessions[locks[h, c]].host = h
                              /\ sessions[locks[h, c]].client = c
  /\ \A x \in SessionIds :
       Exists(x) /\ sessions[x].host # NoDevice
         => locks[sessions[x].host, sessions[x].client] # NoSession

(* handler.ts:163 and implementation_plan.md:716: a request goes through     *)
(* only when the target device is online.                                    *)
OnlyOnlineHostsAreAsked ==
  [][\A x \in SessionIds :
       serverUp /\ ~Exists(x) /\ sessions'[x] # NoSession /\ sessions'[x].host # NoDevice
         => deviceIndex[sessions'[x].host] # NoSocket]_signalingVars
=============================================================================
