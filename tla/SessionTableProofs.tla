------------------------- MODULE SessionTableProofs -------------------------
(***************************************************************************)
(* Invariance proofs about SessionTable, for every value of its constants: *)
(* lemmas about the list and the destructor, one lemma per group of        *)
(* actions, then the theorems.                                             *)
(***************************************************************************)
EXTENDS SessionTable, OrderedSetProofs

USE ConstantsAssumption

CallRecord == [op : Ops, session : Session \cup {None}]

-----------------------------------------------------------------------------
(* Starting and ending a call keeps the type of the calls.                 *)
LEMMA CallType ==
    ASSUME call \in [Channel -> CallRecord], NEW c \in Channel, NEW r \in CallRecord
    PROVE  /\ [call EXCEPT ![c] = r] \in [Channel -> CallRecord]
           /\ [call EXCEPT ![c] = r][c] = r
           /\ \A d \in Channel : d # c => [call EXCEPT ![c] = r][d] = call[d]
OBVIOUS

LEMMA IdleType == Idle \in CallRecord /\ Idle.op = "none"
BY DEF Idle, CallRecord, Ops

LEMMA AliveIsBorn == Alive \subseteq born /\ \A s \in Alive : deletes[s] = 0
BY DEF Alive

(* The destructor keeps the types; it changes the channel and the count of *)
(* the sessions it deletes and of no other, and deletes none twice.        *)
LEMMA DeleteKeeps ==
    ASSUME TypeOK, NEW S \in SUBSET Session, Delete(S), born' = born
    PROVE  /\ deletes' \in [Session -> Nat]
           /\ chan' \in [Session -> Channel \cup {None}]
           /\ /\ active' \subseteq Session /\ timeouted' \subseteq Session
              /\ signalled' \subseteq Session /\ reads' \subseteq Session
           /\ \A s \in S : deletes'[s] = deletes[s] + 1
           /\ \A s \in Session \ S : deletes'[s] = deletes[s] /\ chan'[s] = chan[s]
           /\ Alive' = Alive \ S
           /\ DeletedOnce /\ S \subseteq Alive => DeletedOnce'
<1>1. /\ deletes \in [Session -> Nat] /\ chan \in [Session -> Channel \cup {None}]
      /\ active \subseteq Session /\ timeouted \subseteq Session
      /\ signalled \subseteq Session /\ reads \subseteq Session /\ born \subseteq Session
  BY DEF TypeOK
<1>2. deletes' \in [Session -> Nat]
  BY <1>1 DEF Delete
<1>3. chan' \in [Session -> Channel \cup {None}]
  BY <1>1 DEF Delete
<1>4. /\ active' \subseteq Session /\ timeouted' \subseteq Session
      /\ signalled' \subseteq Session /\ reads' \subseteq Session
  BY <1>1 DEF Delete
<1>5. /\ \A s \in S : deletes'[s] = deletes[s] + 1
      /\ \A s \in Session \ S : deletes'[s] = deletes[s] /\ chan'[s] = chan[s]
  BY <1>1 DEF Delete
<1>6. Alive' = Alive \ S
  <2>1. \A s \in Session : deletes[s] \in Nat
    BY <1>1
  <2>2. \A s \in Session : deletes'[s] = 0 <=> deletes[s] = 0 /\ s \notin S
    BY <1>5, <2>1
  <2> QED
    BY <1>1, <2>2 DEF Alive
<1>7. DeletedOnce /\ S \subseteq Alive => DeletedOnce'
  BY <1>1, <1>5 DEF DeletedOnce, Alive
<1> QED
  BY <1>2, <1>3, <1>4, <1>5, <1>6, <1>7

-----------------------------------------------------------------------------
(* One lemma per step.                                                     *)

LEMMA InitHolds == Init => IInv
<1> SUFFICES ASSUME Init PROVE IInv
  OBVIOUS
<1>1. \A c \in Channel : call[c].op = "none"
  BY DEF Init, Idle
<1>2. Listed = {} /\ born = {} /\ \A s \in Session : deletes[s] = 0
  BY DEF Init, Listed, Empty
<1>3. TypeOK
  <2>1. sessions \in OrderedSets(Session) /\ IsOrdered(sessions)
    BY DEF Init, Empty, OrderedSets, IsOrdered
  <2>2. call \in [Channel -> CallRecord]
    BY IdleType DEF Init
  <2>3. resumes \in 0..MaxResumes
    BY DEF Init
  <2>4. /\ link \in [Channel -> {"new", "open", "lost", "closed"}]
        /\ deletes \in [Session -> Nat]
        /\ chan \in [Session -> Channel \cup {None}]
    BY DEF Init
  <2>5. /\ channels \subseteq Channel /\ sweeping \in BOOLEAN /\ born \subseteq Session
        /\ active \subseteq Session /\ timeouted \subseteq Session
        /\ signalled \subseteq Session /\ reads \subseteq Session
    BY DEF Init
  <2> QED
    BY <2>1, <2>2, <2>3, <2>4, <2>5 DEF TypeOK, CallRecord
<1> QED
  BY <1>1, <1>2, <1>3 DEF IInv, ListedIsBorn, DeletedOnce, ListedIsAlive, OneHolder,
                          AddedIsFresh, RemovedIsOnChannel, NoDanglingChannel

(* Steps that change neither the list, nor the sessions it holds, nor the  *)
(* calls that hold m_hMutex, and remove no channel.                        *)
LEMMA QuietStep ==
    ASSUME IInv, TypeOK', channels \subseteq channels',
           UNCHANGED <<sessions, sweeping, born, deletes, chan>>,
           \A c \in Channel : \/ call'[c] = call[c]
                              \/ call'[c].op \in {"none", "service"}
    PROVE  IInv'
<1>1. Alive' = Alive /\ Listed' = Listed
  BY DEF Alive, Listed
<1>2. ListedIsBorn' /\ DeletedOnce' /\ ListedIsAlive' /\ NoDanglingChannel'
  BY <1>1 DEF IInv, ListedIsBorn, DeletedOnce, ListedIsAlive, SessionsMutexFree, NoDanglingChannel
<1>3. OneHolder'
  BY DEF IInv, OneHolder
<1>4. AddedIsFresh'
  BY <1>1 DEF IInv, AddedIsFresh
<1>5. RemovedIsOnChannel'
  BY <1>1 DEF IInv, RemovedIsOnChannel
<1> QED
  BY <1>2, <1>3, <1>4, <1>5 DEF IInv

LEMMA OpenKeeps ==
    ASSUME IInv, NEW c \in Channel, OpenSecureChannel(c) PROVE IInv'
<1>1. TypeOK'
  BY DEF IInv, TypeOK, OpenSecureChannel, sessionVars
<1> QED
  BY <1>1, QuietStep DEF OpenSecureChannel, sessionVars

LEMMA RenewedKeeps ==
    ASSUME IInv, NEW c \in Channel, SecureChannelRenewed(c) PROVE IInv'
<1>1. TypeOK'
  BY DEF IInv, TypeOK, SecureChannelRenewed, sessionVars
<1> QED
  BY <1>1, QuietStep DEF SecureChannelRenewed, sessionVars

LEMMA FindForServiceKeeps ==
    ASSUME IInv, NEW c \in Channel, NEW s \in Session, FindForService(c, s) PROVE IInv'
<1>1. call \in [Channel -> CallRecord]
  BY DEF IInv, TypeOK, CallRecord
<1>2. [op |-> "service", session |-> s] \in CallRecord
  BY DEF CallRecord, Ops
<1>3. call' \in [Channel -> CallRecord]
  BY <1>1, <1>2, CallType DEF FindForService
<1>4. TypeOK'
  BY <1>3 DEF IInv, TypeOK, FindForService, linkVars, sessionVars, CallRecord
<1>5. \A d \in Channel : call'[d] = call[d] \/ call'[d].op \in {"none", "service"}
  BY <1>1, <1>2, CallType DEF FindForService
<1> QED
  BY <1>4, <1>5, QuietStep DEF FindForService, linkVars, sessionVars

LEMMA RunServiceKeeps ==
    ASSUME IInv, NEW c \in Channel, RunService(c) PROVE IInv'
<1>1. call \in [Channel -> CallRecord] /\ call' = [call EXCEPT ![c] = Idle]
  BY DEF IInv, TypeOK, CallRecord, RunService
<1>2. call' \in [Channel -> CallRecord] /\ \A d \in Channel : call'[d] = call[d] \/ call'[d].op = "none"
  BY <1>1, CallType, IdleType
<1>3. signalled' \subseteq Session /\ reads' \subseteq Session
  BY AliveIsBorn DEF IInv, TypeOK, RunService
<1>4. TypeOK'
  BY <1>2, <1>3 DEF IInv, TypeOK, RunService, linkVars, CallRecord
<1> QED
  BY <1>2, <1>4, QuietStep DEF RunService, linkVars

LEMMA ThreadKeeps ==
    ASSUME IInv, NEW s \in Session, AsyncRequestThread(s) \/ SessionTimeoutThread(s) PROVE IInv'
<1>1. CASE AsyncRequestThread(s)
  <2>1. TypeOK'
    BY <1>1 DEF IInv, TypeOK, AsyncRequestThread, linkVars
  <2> QED
    BY <1>1, <2>1, QuietStep DEF AsyncRequestThread, linkVars
<1>2. CASE TakeSignal(s)
  <2>1. TypeOK'
    BY <1>2 DEF IInv, TypeOK, TakeSignal, linkVars
  <2> QED
    BY <1>2, <2>1, QuietStep DEF TakeSignal, linkVars
<1>3. CASE TimeoutElapses(s)
  <2>1. TypeOK'
    BY <1>3 DEF IInv, TypeOK, TimeoutElapses, linkVars
  <2> QED
    BY <1>3, <2>1, QuietStep DEF TimeoutElapses, linkVars
<1> QED
  BY <1>1, <1>2, <1>3 DEF SessionTimeoutThread

(* A call that begins under m_hMutex, and only reads the list.             *)
LEMMA BeginKeeps ==
    ASSUME IInv, MutexFree, NEW c \in Channel,
           UNCHANGED <<resumes, channels, sessions, sweeping, born, deletes, sessionVars>>,
           link' \in [Channel -> {"new", "open", "lost", "closed"}],
           NEW r \in CallRecord, call' = [call EXCEPT ![c] = r],
           r.op # "add",
           r.op \in {"close", "disconnect"} => chan[r.session] = c
    PROVE  IInv'
<1>1. call \in [Channel -> CallRecord]
  BY DEF IInv, TypeOK, CallRecord
<1>2. /\ call' \in [Channel -> CallRecord] /\ call'[c] = r
      /\ \A d \in Channel : d # c => call'[d].op \in {"none", "service"}
  BY <1>1, CallType DEF MutexFree
<1>3. TypeOK'
  BY <1>2 DEF IInv, TypeOK, sessionVars, CallRecord
<1>4. Alive' = Alive /\ Listed' = Listed
  BY DEF Alive, Listed
<1>5. ListedIsBorn' /\ DeletedOnce' /\ ListedIsAlive' /\ NoDanglingChannel'
  BY <1>4 DEF IInv, ListedIsBorn, DeletedOnce, ListedIsAlive, SessionsMutexFree, NoDanglingChannel, sessionVars
<1>6. OneHolder'
  BY <1>2 DEF OneHolder
<1>7. AddedIsFresh'
  BY <1>2 DEF AddedIsFresh
<1>8. RemovedIsOnChannel'
  BY <1>2 DEF RemovedIsOnChannel, sessionVars
<1> QED
  BY <1>3, <1>5, <1>6, <1>7, <1>8 DEF IInv

LEMMA FindToActivateKeeps ==
    ASSUME IInv, NEW c \in Channel, NEW s \in Session, FindToActivate(c, s) PROVE IInv'
<1>1. [op |-> "activate", session |-> s] \in CallRecord
  BY DEF CallRecord, Ops
<1>2. link' \in [Channel -> {"new", "open", "lost", "closed"}]
  BY DEF IInv, TypeOK, FindToActivate, linkVars
<1> QED
  BY <1>1, <1>2, BeginKeeps DEF FindToActivate, linkVars

LEMMA FindToCloseKeeps ==
    ASSUME IInv, NEW c \in Channel, NEW s \in Session, FindToClose(c, s) PROVE IInv'
<1>1. [op |-> "close", session |-> s] \in CallRecord /\ chan[s] = c
  BY DEF CallRecord, Ops, FindToClose, On
<1>2. link' \in [Channel -> {"new", "open", "lost", "closed"}]
  BY DEF IInv, TypeOK, FindToClose, linkVars
<1> QED
  BY <1>1, <1>2, BeginKeeps DEF FindToClose, linkVars

(* The first session of a channel that has none without one before it is   *)
(* on that channel.                                                        *)
LEMMA FirstIsOn ==
    ASSUME TypeOK, NEW c \in Channel, NEW s \in FirstOn(sessions, c),
           FirstOn(sessions, c) \cap On(None) = {}
    PROVE  s \in Session /\ s \in Listed /\ chan[s] = c
<1>1. s \in Listed \cap (On(c) \cup On(None))
  BY DEF FirstOn, First, Listed
<1> QED
  BY <1>1 DEF On

LEMMA ConnectionClosedKeeps ==
    ASSUME IInv, NEW c \in Channel, TransportConnectionClosed(c) PROVE IInv'
<1>1. link' \in [Channel -> {"new", "open", "lost", "closed"}]
  BY DEF IInv, TypeOK, TransportConnectionClosed
<1>2. CASE UNCHANGED call
  <2>1. TypeOK'
    BY <1>1, <1>2 DEF IInv, TypeOK, TransportConnectionClosed, sessionVars
  <2> QED
    BY <1>2, <2>1, QuietStep DEF TransportConnectionClosed, sessionVars
<1>3. CASE c \in channels /\ \E s \in FirstOn(sessions, c) :
              call' = [call EXCEPT ![c] = [op |-> "disconnect", session |-> s]]
  <2>1. PICK s \in FirstOn(sessions, c) :
           call' = [call EXCEPT ![c] = [op |-> "disconnect", session |-> s]]
    BY <1>3
  <2>2. s \in Session /\ chan[s] = c
    BY <1>3, FirstIsOn DEF IInv, TransportConnectionClosed
  <2>3. [op |-> "disconnect", session |-> s] \in CallRecord
    BY <2>2 DEF CallRecord, Ops
  <2> QED
    BY <1>1, <2>1, <2>2, <2>3, BeginKeeps DEF TransportConnectionClosed
<1> QED
  BY <1>2, <1>3 DEF TransportConnectionClosed

(* A channel leaves its list only when no session of the list is on it.    *)
LEMMA CloseChannelKeeps ==
    ASSUME TypeOK, NEW l, NEW c \in Channel, CloseSecureChannel(l, c)
    PROVE  /\ channels' \subseteq channels
           /\ \A s \in l.members \cap Session :
                 chan[s] \in channels \cup {None} => chan[s] \in channels' \cup {None}
BY DEF CloseSecureChannel, On

LEMMA ChannelClosedKeeps ==
    ASSUME IInv, NEW c \in Channel, SecureChannelClosed(c) PROVE IInv'
<1>1. channels' \subseteq channels /\ \A s \in Listed \cap Session :
         chan[s] \in channels \cup {None} => chan[s] \in channels' \cup {None}
  BY CloseChannelKeeps DEF IInv, SecureChannelClosed, Listed
<1>2. TypeOK'
  BY <1>1 DEF IInv, TypeOK, SecureChannelClosed, sessionVars
<1>3. Alive' = Alive /\ Listed' = Listed
  BY DEF Alive, Listed, SecureChannelClosed
<1>4. \A d \in Channel : call'[d].op \in {"none", "service"}
  BY DEF SecureChannelClosed, MutexFree
<1>5. ListedIsBorn' /\ DeletedOnce' /\ ListedIsAlive'
  BY <1>3 DEF IInv, ListedIsBorn, DeletedOnce, ListedIsAlive, SessionsMutexFree, SecureChannelClosed
<1>6. NoDanglingChannel'
  BY <1>1, <1>3, AliveIsBorn DEF IInv, TypeOK, NoDanglingChannel, SecureChannelClosed, sessionVars
<1> QED
  BY <1>2, <1>4, <1>5, <1>6 DEF IInv, OneHolder, AddedIsFresh, RemovedIsOnChannel

(* RemoveSessionServer, called under m_hMutex with a session found before: *)
(* it deletes at most that session, which is alive if it is still listed.  *)
LEMMA RemoveKeeps ==
    ASSUME IInv, SessionsMutexFree, NEW c \in Channel, call[c].op \in {"close", "disconnect"},
           RemoveSessionServer(call[c].session), call' = [call EXCEPT ![c] = Idle],
           UNCHANGED <<resumes, sweeping, born>>,
           link' \in [Channel -> {"new", "open", "lost", "closed"}],
           channels' \subseteq channels,
           \A s \in Listed \ {call[c].session} :
              chan[s] \in channels \cup {None} => chan[s] \in channels' \cup {None}
    PROVE  IInv'
<1> DEFINE s0 == call[c].session
           D == Listed \cap {s0}
<1>1. /\ TypeOK /\ IsOrdered(sessions) /\ sessions \in OrderedSets(Session)
      /\ call \in [Channel -> CallRecord] /\ Listed \subseteq Session
  BY DEF IInv, TypeOK, CallRecord, Listed, OrderedSets
<1>2. D \subseteq Alive /\ D \subseteq Session
  BY <1>1 DEF IInv, ListedIsAlive
<1>3. /\ deletes' \in [Session -> Nat] /\ chan' \in [Session -> Channel \cup {None}]
      /\ active' \subseteq Session /\ timeouted' \subseteq Session
      /\ signalled' \subseteq Session /\ reads' \subseteq Session
      /\ \A s \in Session \ D : deletes'[s] = deletes[s] /\ chan'[s] = chan[s]
      /\ Alive' = Alive \ D
      /\ DeletedOnce'
  <2>1. Delete(D)
    BY DEF RemoveSessionServer
  <2> QED
    BY <1>1, <1>2, <2>1, DeleteKeeps DEF IInv
<1>4. /\ sessions' \in OrderedSets(Session) /\ IsOrdered(sessions')
      /\ Listed' = Listed \ {s0}
  BY <1>1, KeepIsList DEF RemoveSessionServer, Listed
<1>5. /\ call' \in [Channel -> CallRecord]
      /\ \A d \in Channel : call'[d].op \in {"none", "service"}
  BY <1>1, CallType, IdleType DEF IInv, OneHolder
<1>6. TypeOK'
  BY <1>3, <1>4, <1>5 DEF IInv, TypeOK, CallRecord
<1>7. ListedIsBorn'
  BY <1>2, <1>3, <1>4, AliveIsBorn DEF IInv, TypeOK, ListedIsBorn
<1>8. ListedIsAlive'
  BY <1>3, <1>4 DEF IInv, ListedIsAlive, SessionsMutexFree
<1>9. NoDanglingChannel'
  BY <1>1, <1>3, <1>4 DEF IInv, NoDanglingChannel
<1> QED
  BY <1>3, <1>5, <1>6, <1>7, <1>8, <1>9 DEF IInv, OneHolder, AddedIsFresh, RemovedIsOnChannel

LEMMA CloseSessionKeeps ==
    ASSUME IInv, NEW c \in Channel, CloseSession(c) PROVE IInv'
<1>1. link' \in [Channel -> {"new", "open", "lost", "closed"}]
  BY DEF IInv, TypeOK, CloseSession, linkVars
<1> QED
  BY <1>1, RemoveKeeps DEF CloseSession, linkVars

LEMMA RemoveLostKeeps ==
    ASSUME IInv, NEW c \in Channel, RemoveLostSession(c) PROVE IInv'
<1>1. link' \in [Channel -> {"new", "open", "lost", "closed"}]
  BY DEF IInv, TypeOK, RemoveLostSession
<1>2. /\ channels' \subseteq channels
      /\ \A s \in Listed \ {call[c].session} :
            chan[s] \in channels \cup {None} => chan[s] \in channels' \cup {None}
  <2> DEFINE left == Keep(sessions, Listed \ {call[c].session})
  <2>1. /\ left.members = Listed \ {call[c].session} /\ Listed \subseteq Session /\ TypeOK
    <3>1. TypeOK /\ sessions \in OrderedSets(Session) /\ IsOrdered(sessions)
      BY DEF IInv, TypeOK
    <3>2. left.members = Listed \cap (Listed \ {call[c].session})
      BY <3>1, KeepIsList DEF Listed
    <3>3. Listed \subseteq Session
      BY <3>1 DEF Listed, OrderedSets
    <3> QED
      BY <3>1, <3>2, <3>3
  <2>2. CASE channels' = channels
    BY <2>2
  <2>3. CASE CloseSecureChannel(left, c)
    BY <2>1, <2>3, CloseChannelKeeps
  <2> QED
    BY <2>2, <2>3 DEF RemoveLostSession
<1> QED
  BY <1>1, <1>2, RemoveKeeps DEF RemoveLostSession

LEMMA CreateKeeps ==
    ASSUME IInv, NEW c \in Channel, NEW s \in Session, CreateSession(c, s) PROVE IInv'
<1>1. /\ call \in [Channel -> CallRecord]
      /\ chan \in [Session -> Channel \cup {None}] /\ channels \subseteq Channel
      /\ deletes \in [Session -> Nat] /\ born \subseteq Session
  BY DEF IInv, TypeOK, CallRecord
<1>2. [op |-> "add", session |-> s] \in CallRecord
  BY DEF CallRecord, Ops
<1>3. /\ call' \in [Channel -> CallRecord]
      /\ \A d \in Channel : d # c => call'[d].op \in {"none", "service"}
      /\ call'[c].op \in {"none", "service"} \/ call'[c] = [op |-> "add", session |-> s]
  BY <1>1, <1>2, CallType DEF CreateSession, MutexFree
<1>4. /\ chan' \in [Session -> Channel \cup {None}]
      /\ chan'[s] \in channels \cup {None}
      /\ \A t \in Session \ {s} : chan'[t] = chan[t]
  BY <1>1 DEF CreateSession
<1>5. /\ s \notin born /\ born' = born \cup {s}
      /\ UNCHANGED <<link, resumes, channels, sessions, sweeping, deletes,
                    active, timeouted, signalled, reads>>
  BY DEF CreateSession, linkVars
<1>6. TypeOK'
  BY <1>3, <1>4, <1>5 DEF IInv, TypeOK, CallRecord
<1>7. /\ s \notin Listed /\ Listed' = Listed /\ Listed \subseteq born
      /\ Alive' = Alive \cup {s}
  BY <1>1, <1>5 DEF IInv, ListedIsBorn, Listed, Alive
<1>8. ListedIsBorn' /\ DeletedOnce' /\ ListedIsAlive'
  BY <1>5, <1>7 DEF IInv, ListedIsBorn, DeletedOnce, ListedIsAlive, SessionsMutexFree
<1>9. NoDanglingChannel'
  BY <1>1, <1>4, <1>5, <1>7 DEF IInv, NoDanglingChannel
<1>10. AddedIsFresh'
  BY <1>3, <1>4, <1>5, <1>7 DEF AddedIsFresh
<1> QED
  BY <1>3, <1>6, <1>8, <1>9, <1>10 DEF IInv, OneHolder, RemovedIsOnChannel

LEMMA AddKeeps ==
    ASSUME IInv, NEW c \in Channel, AddSessionServer(c) PROVE IInv'
<1> DEFINE s0 == call[c].session
<1>1. /\ call \in [Channel -> CallRecord] /\ s0 \in Alive \ Listed /\ s0 \in Session
      /\ chan[s0] \in channels \cup {None}
  BY AliveIsBorn DEF IInv, TypeOK, CallRecord, AddedIsFresh, AddSessionServer
<1>2. /\ sessions' \in OrderedSets(Session) /\ IsOrdered(sessions')
      /\ Listed' = Listed \cup {s0}
  BY <1>1, PushBackIsList DEF IInv, TypeOK, AddSessionServer, Listed
<1>3. /\ call' \in [Channel -> CallRecord]
      /\ \A d \in Channel : call'[d].op \in {"none", "service"}
  BY <1>1, CallType, IdleType DEF IInv, OneHolder, AddSessionServer
<1>4. UNCHANGED <<linkVars, sweeping, born, deletes, sessionVars>> /\ Alive' = Alive
  BY DEF AddSessionServer, Alive
<1>5. TypeOK'
  BY <1>2, <1>3, <1>4 DEF IInv, TypeOK, linkVars, sessionVars, CallRecord
<1>6. ListedIsBorn' /\ DeletedOnce' /\ ListedIsAlive'
  BY <1>1, <1>2, <1>4, AliveIsBorn
     DEF IInv, ListedIsBorn, DeletedOnce, ListedIsAlive, SessionsMutexFree
<1>7. NoDanglingChannel'
  BY <1>1, <1>2, <1>4 DEF IInv, NoDanglingChannel, linkVars, sessionVars
<1> QED
  BY <1>3, <1>5, <1>6, <1>7 DEF IInv, OneHolder, AddedIsFresh, RemovedIsOnChannel

LEMMA ActivateKeeps ==
    ASSUME IInv, NEW c \in Channel, ActivateSession(c) PROVE IInv'
<1>1. /\ call \in [Channel -> CallRecord] /\ chan \in [Session -> Channel \cup {None}]
      /\ Alive \subseteq Session
  BY AliveIsBorn DEF IInv, TypeOK, CallRecord
<1>2. /\ call' \in [Channel -> CallRecord]
      /\ \A d \in Channel : call'[d].op \in {"none", "service"}
  BY <1>1, CallType, IdleType DEF IInv, OneHolder, ActivateSession
<1>3. /\ UNCHANGED <<linkVars, sessions, sweeping, born, deletes, timeouted, reads>>
      /\ Alive' = Alive /\ Listed' = Listed
  BY DEF ActivateSession, Alive, Listed
<1>4. /\ chan' \in [Session -> Channel \cup {None}]
      /\ \A s \in Session : chan'[s] = chan[s] \/ chan'[s] \in channels
  BY <1>1 DEF ActivateSession
<1>5. signalled' \subseteq Session /\ active' \subseteq Session
  BY <1>1 DEF IInv, TypeOK, ActivateSession
<1>6. TypeOK'
  BY <1>2, <1>3, <1>4, <1>5 DEF IInv, TypeOK, linkVars, CallRecord
<1>7. ListedIsBorn' /\ DeletedOnce' /\ ListedIsAlive'
  BY <1>3 DEF IInv, ListedIsBorn, DeletedOnce, ListedIsAlive, SessionsMutexFree
<1>8. NoDanglingChannel'
  BY <1>1, <1>3, <1>4 DEF IInv, NoDanglingChannel, linkVars
<1> QED
  BY <1>2, <1>6, <1>7, <1>8 DEF IInv, OneHolder, AddedIsFresh, RemovedIsOnChannel

LEMMA SweepBeginKeeps ==
    ASSUME IInv, SweepBegin PROVE IInv'
<1> DEFINE D == Listed \cap timeouted
<1>1. /\ TypeOK /\ Listed \subseteq Session /\ Listed \subseteq Alive
      /\ D \subseteq Session /\ D \subseteq Alive /\ Alive \subseteq Session
  BY AliveIsBorn DEF IInv, TypeOK, ListedIsAlive, SessionsMutexFree, SweepBegin, Listed, OrderedSets
<1>2. UNCHANGED <<linkVars, sessions, born, call>> /\ Listed' = Listed /\ sweeping' = TRUE
  BY DEF SweepBegin, Listed
<1>3. /\ deletes' \in [Session -> Nat] /\ chan' \in [Session -> Channel \cup {None}]
      /\ active' \subseteq Session /\ timeouted' \subseteq Session
      /\ signalled' \subseteq Session /\ reads' \subseteq Session
      /\ \A s \in Session \ D : deletes'[s] = deletes[s] /\ chan'[s] = chan[s]
      /\ Alive' = Alive \ D
      /\ DeletedOnce'
  BY <1>1, <1>2, DeleteKeeps DEF IInv, SweepBegin
<1>4. TypeOK'
  BY <1>2, <1>3 DEF IInv, TypeOK, linkVars
<1>5. ListedIsBorn'
  BY <1>1, <1>2, <1>3, AliveIsBorn DEF IInv, ListedIsBorn
<1>6. ListedIsAlive' /\ OneHolder'
  BY <1>2 DEF IInv, ListedIsAlive, SessionsMutexFree, OneHolder
<1>7. AddedIsFresh'
  BY <1>1, <1>2, <1>3 DEF IInv, AddedIsFresh, linkVars
<1>8. RemovedIsOnChannel'
  BY <1>1, <1>2, <1>3 DEF IInv, RemovedIsOnChannel
<1>9. NoDanglingChannel'
  BY <1>1, <1>2, <1>3 DEF IInv, NoDanglingChannel, linkVars
<1> QED
  BY <1>3, <1>4, <1>5, <1>6, <1>7, <1>8, <1>9 DEF IInv

LEMMA SweepEndKeeps ==
    ASSUME IInv, SweepEnd PROVE IInv'
<1>1. /\ sessions' \in OrderedSets(Session) /\ IsOrdered(sessions')
      /\ Listed' = Listed \cap Alive
  BY KeepIsList DEF IInv, TypeOK, SweepEnd, Listed
<1>2. UNCHANGED <<linkVars, born, deletes, sessionVars, call>> /\ sweeping' = FALSE /\ Alive' = Alive
  BY DEF SweepEnd, Alive
<1>3. TypeOK'
  BY <1>1, <1>2 DEF IInv, TypeOK, linkVars, sessionVars
<1>4. ListedIsBorn' /\ DeletedOnce' /\ ListedIsAlive' /\ OneHolder'
  BY <1>1, <1>2 DEF IInv, ListedIsBorn, DeletedOnce, ListedIsAlive, OneHolder
<1>5. AddedIsFresh' /\ RemovedIsOnChannel' /\ NoDanglingChannel'
  BY <1>1, <1>2 DEF IInv, AddedIsFresh, RemovedIsOnChannel, NoDanglingChannel, linkVars, sessionVars
<1> QED
  BY <1>3, <1>4, <1>5 DEF IInv

LEMMA StutterKeeps == ASSUME IInv, UNCHANGED vars PROVE IInv'
BY QuietStep DEF IInv, TypeOK, vars, linkVars, sessionVars

-----------------------------------------------------------------------------
(* The theorems.                                                           *)

LEMMA NextKeeps == ASSUME IInv, [Next]_vars PROVE IInv'
<1>1. CASE Threads
  BY <1>1, SweepBeginKeeps, SweepEndKeeps, ThreadKeeps DEF Threads
<1>2. ASSUME NEW c \in Channel, Events(c) PROVE IInv'
  BY <1>2, OpenKeeps, RenewedKeeps, ChannelClosedKeeps, ConnectionClosedKeeps, RemoveLostKeeps DEF Events
<1>3. ASSUME NEW c \in Channel, Services(c) PROVE IInv'
  BY <1>3, AddKeeps, ActivateKeeps, CloseSessionKeeps, RunServiceKeeps, CreateKeeps,
     FindToActivateKeeps, FindToCloseKeeps, FindForServiceKeeps DEF Services
<1> QED
  BY <1>1, <1>2, <1>3, StutterKeeps DEF Next

(* The inductive invariant of the two lists holds in every reachable state *)
(* (CServerApplication, for any number of sessions, channels and limit).   *)
THEOREM Invariance == Spec => []IInv
BY InitHolds, NextKeeps, PTL DEF Spec

(* Every variable of the session table keeps its type.                     *)
THEOREM TypeCorrect == Spec => []TypeOK
<1>1. IInv => TypeOK
  BY DEF IInv
<1> QED
  BY <1>1, Invariance, PTL

(* No session is deleted twice, whatever found it (RemoveSessionServer).   *)
THEOREM DeletedAtMostOnce == Spec => []DeletedOnce
<1>1. IInv => DeletedOnce
  BY DEF IInv
<1> QED
  BY <1>1, Invariance, PTL

(* Outside of a sweep the list holds only sessions that exist.             *)
THEOREM ListHoldsNoDeleted == Spec => []ListedIsAlive
<1>1. IInv => ListedIsAlive
  BY DEF IInv
<1> QED
  BY <1>1, Invariance, PTL

(* A session that can be found points to no deleted channel                *)
(* (CloseSecureChannel).                                                   *)
THEOREM ChannelsStay == Spec => []NoDanglingChannel
<1>1. IInv => NoDanglingChannel
  BY DEF IInv
<1> QED
  BY <1>1, Invariance, PTL

(* The session RemoveSessionServer deletes was found on the channel it is  *)
(* on when it is deleted.                                                  *)
LEMMA RemovalStep ==
    ASSUME IInv, SessionsMutexFree, NEW c \in Channel, call[c].op \in {"close", "disconnect"},
           RemoveSessionServer(call[c].session), NEW s \in Session, deletes'[s] # deletes[s]
    PROVE  chan[s] = c /\ call[c].session = s
<1>1. s \in Listed /\ s = call[c].session
  BY DEF RemoveSessionServer, Delete, IInv, TypeOK
<1>2. s \in Alive
  BY <1>1 DEF IInv, ListedIsAlive
<1> QED
  BY <1>1, <1>2 DEF IInv, RemovedIsOnChannel

(* A session is deleted only because it ended, or by the closing or loss   *)
(* of the channel it is on then (OnEndpointCallback, CloseSession).        *)
THEOREM OnlyItsChannelEnds == Spec => OnlyItsChannelEndsIt
<1>1. ASSUME IInv, Next PROVE \A s \in Session : EndsForCause(s)
  <2> SUFFICES ASSUME NEW s \in Session PROVE EndsForCause(s)
    OBVIOUS
  <2>1. CASE Threads
    <3>1. CASE SweepBegin
      BY <1>1, <3>1 DEF EndsForCause, SweepBegin, Delete, IInv, TypeOK
    <3> QED
      BY <2>1, <3>1 DEF EndsForCause, Threads, SweepEnd, AsyncRequestThread, SessionTimeoutThread, TakeSignal, TimeoutElapses
  <2>2. ASSUME NEW c \in Channel, CloseSession(c) \/ RemoveLostSession(c) PROVE EndsForCause(s)
    BY <1>1, <2>2, RemovalStep DEF EndsForCause, CloseSession, RemoveLostSession
  <2>3. ASSUME NEW c \in Channel, Events(c) PROVE EndsForCause(s)
    BY <2>2, <2>3 DEF EndsForCause, Events, OpenSecureChannel, SecureChannelRenewed, SecureChannelClosed, TransportConnectionClosed
  <2>4. ASSUME NEW c \in Channel, Services(c) PROVE EndsForCause(s)
    BY <2>2, <2>4 DEF EndsForCause, Services, AddSessionServer, ActivateSession, RunService, CreateSession,
                      FindToActivate, FindToClose, FindForService
  <2> QED
    BY <1>1, <2>1, <2>3, <2>4 DEF Next
<1>2. IInv /\ [Next]_vars => [\A s \in Session : EndsForCause(s)]_vars
  BY <1>1
<1> QED
  BY <1>2, Invariance, PTL DEF Spec, OnlyItsChannelEndsIt
=============================================================================
