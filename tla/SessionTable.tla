---------------------------- MODULE SessionTable ----------------------------
(***************************************************************************)
(* The sessions and secure channels of the server: the two lists           *)
(* m_sessions and m_pSecureChannels of CServerApplication, the services    *)
(* and events that change them, and the threads that end a silent session. *)
(*                                                                         *)
(*   the stack      raises the events of a secure channel and calls one    *)
(*                  service at a time per endpoint.  Every channel is      *)
(*                  given its own endpoint, the most concurrent setting;   *)
(*                  its events come when no service of it is in progress;  *)
(*   a session      SessionTimeoutThread waits on m_SessionTimeoutSem and  *)
(*                  ends when nothing was posted for the session timeout;  *)
(*                  AsyncRequestThread answers the queued reads;           *)
(*   the server     SessionsTimeoutThread deletes the sessions that ended. *)
(*                                                                         *)
(* Two mutexes.  m_hMutex serialises the events, CreateSession,            *)
(* ActivateSession and CloseSession, from end to end; it is taken while    *)
(* one of them is in `call'.  m_hSessionsMutex guards m_sessions: it is    *)
(* held inside single actions, and by SessionsTimeoutThread over a sweep.  *)
(* FindSession releases it before its caller uses the session it found.    *)
(*                                                                         *)
(* A step that would read through the null channel of a session is not     *)
(* enabled: the process ends there.  A call on a deleted session has no    *)
(* effect but its end; whether there is one is UsedSessionIsAlive.         *)
(***************************************************************************)
EXTENDS OrderedSet, FiniteSets

CONSTANTS
    Session,       \* CSessionServer objects, each created at most once
    Channel,       \* secure channel identifiers, each opened at most once
    None,          \* a null pointer
    MaxSessions,   \* MAX_SESSION_SUPPORTED
    MaxResumes     \* bound: channels resumed over a new connection

ASSUME ConstantsAssumption ==
    /\ None \notin Session \cup Channel
    /\ MaxSessions \in Nat
    /\ MaxResumes \in Nat

VARIABLES
    link,       \* what the stack knows of a channel
    resumes,    \* channels resumed so far
    channels,   \* m_pSecureChannels
    sessions,   \* m_sessions
    sweeping,   \* SessionsTimeoutThread holds m_hSessionsMutex
    born,       \* sessions constructed so far
    deletes,    \* times the destructor of a session ran
    chan,       \* CSessionServer::m_pSecureChannel
    active,     \* m_bSessionActive
    timeouted,  \* m_bRunSessionTimeoutThread is false
    signalled,  \* m_SessionTimeoutSem was posted and not yet taken
    reads,      \* sessions with queued Read, HistoryRead or Call requests
    call        \* the service or event of a channel in progress

linkVars    == <<link, resumes, channels>>
sessionVars == <<chan, active, timeouted, signalled, reads>>
vars == <<linkVars, sessions, sweeping, born, deletes, sessionVars, call>>

Idle == [op |-> "none", session |-> None]
Ops  == {"none", "service", "add", "activate", "close", "disconnect"}

Listed == sessions.members
Alive  == {s \in born : deletes[s] = 0}
On(c)  == {s \in Session : chan[s] = c}

MutexFree         == \A c \in Channel : call[c].op \in {"none", "service"}
SessionsMutexFree == ~sweeping
MayCall(c)        == link[c] = "open" /\ call[c].op = "none"

(* FindSession(uSecureChannelId): the first session of the list l that is  *)
(* on channel c, or has no channel to compare with.                        *)
FirstOn(l, c) == First(l, On(c) \cup On(None))

(* The destructor: what a deleted session holds is gone.                   *)
Delete(S) ==
    /\ deletes'   = [s \in Session |-> IF s \in S THEN deletes[s] + 1 ELSE deletes[s]]
    /\ chan'      = [s \in Session |-> IF s \in S THEN None ELSE chan[s]]
    /\ active'    = active \ S
    /\ timeouted' = timeouted \ S
    /\ signalled' = signalled \ S
    /\ reads'     = reads \ S

(* Variant: the pointer is deleted without looking for it in the list.     *)
RemoveWithoutLooking(s) ==
    /\ Delete({s})
    /\ sessions' = Keep(sessions, Listed \ {s})

(* Variant: the session is deleted and stays in the list.                  *)
RemoveWithoutErase(s) ==
    /\ Delete(Listed \cap {s})
    /\ UNCHANGED sessions

(* RemoveSessionServer: deletes a session that is still in the list.       *)
RemoveSessionServer(s) ==
    /\ Delete(Listed \cap {s})
    /\ sessions' = Keep(sessions, Listed \ {s})

-----------------------------------------------------------------------------
(* The events of the stack: OnEndpointCallback.                            *)

OpenSecureChannel(c) ==
    /\ link[c] = "new"
    /\ MutexFree
    /\ link' = [link EXCEPT ![c] = "open"]
    /\ channels' = channels \cup {c}
    /\ UNCHANGED <<resumes, sessions, sweeping, born, deletes, sessionVars, call>>

(* A client renews a channel over a new transport connection: the server   *)
(* only traces the event.                                                  *)
SecureChannelRenewed(c) ==
    /\ link[c] = "lost"
    /\ call[c].op = "none"
    /\ MutexFree
    /\ resumes < MaxResumes
    /\ resumes' = resumes + 1
    /\ link' = [link EXCEPT ![c] = "open"]
    /\ UNCHANGED <<channels, sessions, sweeping, born, deletes, sessionVars, call>>

(* Variant: the channel goes whatever is on it.                            *)
CloseInAnyCase(l, c) == channels' = channels \ {c}

(* CloseSecureChannel: a channel with a session stays in the list.         *)
CloseSecureChannel(l, c) ==
    channels' = IF l.members \cap On(c) = {} THEN channels \ {c} ELSE channels

(* The client closes the channel, or its lifetime ends; the stack raises   *)
(* the event when no request of the channel is in progress.                *)
SecureChannelClosed(c) ==
    /\ link[c] \in {"open", "lost"}
    /\ call[c].op = "none"
    /\ MutexFree
    /\ SessionsMutexFree
    /\ c \in channels => FirstOn(sessions, c) \cap On(None) = {}
    /\ link' = [link EXCEPT ![c] = "closed"]
    /\ CloseSecureChannel(sessions, c)
    /\ UNCHANGED <<resumes, sessions, sweeping, born, deletes, sessionVars, call>>

(* The transport connection is lost: the first session of the channel is   *)
(* looked for, and nothing else happens when there is none.                *)
TransportConnectionClosed(c) ==
    /\ MayCall(c)
    /\ MutexFree
    /\ SessionsMutexFree
    /\ c \in channels => FirstOn(sessions, c) \cap On(None) = {}
    /\ link' = [link EXCEPT ![c] = "lost"]
    /\ \/ /\ c \in channels
          /\ \E s \in FirstOn(sessions, c) :
                call' = [call EXCEPT ![c] = [op |-> "disconnect", session |-> s]]
       \/ /\ c \in channels => FirstOn(sessions, c) = {}
          /\ UNCHANGED call
    /\ UNCHANGED <<resumes, channels, sessions, sweeping, born, deletes, sessionVars>>

(* Then it is removed, and only if that worked the channel is closed.      *)
RemoveLostSession(c) ==
    /\ call[c].op = "disconnect"
    /\ SessionsMutexFree
    /\ LET s == call[c].session
           left == Keep(sessions, Listed \ {s})
       IN  /\ RemoveSessionServer(s)
           /\ IF s \in Listed
              THEN /\ FirstOn(left, c) \cap On(None) = {}
                   /\ CloseSecureChannel(left, c)
              ELSE UNCHANGED channels
    /\ call' = [call EXCEPT ![c] = Idle]
    /\ UNCHANGED <<link, resumes, sweeping, born>>

-----------------------------------------------------------------------------
(* The session services.                                                   *)

(* What m_sessions.size() returns without m_hSessionsMutex: during a sweep *)
(* the list is as before, then cleared, then what is left.                 *)
UnlockedSizes ==
    IF sweeping
    THEN {Cardinality(Listed), 0, Cardinality(Listed \cap Alive)}
    ELSE {Cardinality(Listed)}

(* CreateSession constructs the session, which takes its channel from the  *)
(* list, and then compares the number of sessions with the limit; a        *)
(* session beyond it is neither listed nor deleted.  A client nonce, if    *)
(* there is one, is new, so IsClientNonceExist lets the call go on.        *)
CreateSession(c, s) ==
    /\ MayCall(c)
    /\ MutexFree
    /\ s \notin born
    /\ born' = born \cup {s}
    /\ chan' = [chan EXCEPT ![s] = IF c \in channels THEN c ELSE None]
    /\ \E n \in UnlockedSizes :
          call' = IF n < MaxSessions
                  THEN [call EXCEPT ![c] = [op |-> "add", session |-> s]]
                  ELSE call
    /\ UNCHANGED <<linkVars, sessions, sweeping, deletes, active, timeouted, signalled, reads>>

(* Variant: a session that could not be allocated is listed too.           *)
AddSessionOrNull(c) ==
    /\ call[c].op = "add"
    /\ SessionsMutexFree
    /\ \E s \in {call[c].session, None} : sessions' = PushBack(sessions, s)
    /\ call' = [call EXCEPT ![c] = Idle]
    /\ UNCHANGED <<linkVars, sweeping, born, deletes, sessionVars>>

AddSessionServer(c) ==
    /\ call[c].op = "add"
    /\ SessionsMutexFree
    /\ sessions' = PushBack(sessions, call[c].session)
    /\ call' = [call EXCEPT ![c] = Idle]
    /\ UNCHANGED <<linkVars, sweeping, born, deletes, sessionVars>>

(* Variant: the mutex of the application is not taken.                     *)
FindToActivateUnlocked(c, s) ==
    /\ MayCall(c)
    /\ SessionsMutexFree
    /\ s \in Listed
    /\ chan[s] # None
    /\ call' = [call EXCEPT ![c] = [op |-> "activate", session |-> s]]
    /\ UNCHANGED <<linkVars, sessions, sweeping, born, deletes, sessionVars>>

(* ActivateSession finds the session by its token alone.                   *)
FindToActivate(c, s) ==
    /\ MayCall(c)
    /\ MutexFree
    /\ SessionsMutexFree
    /\ s \in Listed
    /\ chan[s] # None
    /\ call' = [call EXCEPT ![c] = [op |-> "activate", session |-> s]]
    /\ UNCHANGED <<linkVars, sessions, sweeping, born, deletes, sessionVars>>

(* Activate succeeds, fails before it changed anything, or fails at the    *)
(* nonce or certificate and leaves the session inactive.                   *)
ActivateSession(c) ==
    /\ call[c].op = "activate"
    /\ LET s == call[c].session
       IN  IF s \in Alive
           THEN /\ signalled' = signalled \cup {s}
                /\ chan' = IF c \in channels THEN [chan EXCEPT ![s] = c] ELSE chan
                /\ active' \in IF s \in timeouted
                               THEN {active}
                               ELSE {active, active \cup {s}, active \ {s}}
           ELSE UNCHANGED <<signalled, chan, active>>
    /\ call' = [call EXCEPT ![c] = Idle]
    /\ UNCHANGED <<linkVars, sessions, sweeping, born, deletes, timeouted, reads>>

FindToClose(c, s) ==
    /\ MayCall(c)
    /\ MutexFree
    /\ SessionsMutexFree
    /\ s \in Listed \cap On(c)
    /\ call' = [call EXCEPT ![c] = [op |-> "close", session |-> s]]
    /\ UNCHANGED <<linkVars, sessions, sweeping, born, deletes, sessionVars>>

CloseSession(c) ==
    /\ call[c].op = "close"
    /\ SessionsMutexFree
    /\ RemoveSessionServer(call[c].session)
    /\ call' = [call EXCEPT ![c] = Idle]
    /\ UNCHANGED <<linkVars, sweeping, born>>

(* Every other service: the session is found by channel and token, and     *)
(* used after m_hSessionsMutex was released.                               *)
FindForService(c, s) ==
    /\ MayCall(c)
    /\ SessionsMutexFree
    /\ s \in Listed \cap On(c)
    /\ call' = [call EXCEPT ![c] = [op |-> "service", session |-> s]]
    /\ UNCHANGED <<linkVars, sessions, sweeping, born, deletes, sessionVars>>

(* Most services post m_SessionTimeoutSem first; SetPublishingMode,        *)
(* ModifySubscription and Republish do not.  Read, HistoryRead and Call    *)
(* queue a request.                                                        *)
RunService(c) ==
    /\ call[c].op = "service"
    /\ LET used == {call[c].session} \cap Alive
       IN  \/ /\ signalled' = signalled \cup used
              /\ reads' \in {reads, reads \cup used}
           \/ UNCHANGED <<signalled, reads>>
    /\ call' = [call EXCEPT ![c] = Idle]
    /\ UNCHANGED <<linkVars, sessions, sweeping, born, deletes, chan, active, timeouted>>

-----------------------------------------------------------------------------
(* The threads.                                                            *)

(* AsyncRequestThread: a read, a history read or a call of a session that  *)
(* is not active makes the session end.                                    *)
AsyncRequestThread(s) ==
    /\ s \in reads \cap Alive
    /\ reads' = reads \ {s}
    /\ timeouted' = IF s \in active THEN timeouted ELSE timeouted \cup {s}
    /\ UNCHANGED <<linkVars, sessions, sweeping, born, deletes, chan, active, signalled, call>>

(* SessionTimeoutThread: every post starts the wait again.                 *)
TakeSignal(s) ==
    /\ s \in (signalled \cap Alive) \ timeouted
    /\ signalled' = signalled \ {s}
    /\ UNCHANGED <<linkVars, sessions, sweeping, born, deletes, chan, active, timeouted, reads, call>>

(* Variant: only an active session can run out of time.                    *)
TimeoutElapsesIfActive(s) ==
    /\ s \in (active \cap Alive) \ (signalled \cup timeouted)
    /\ timeouted' = timeouted \cup {s}
    /\ UNCHANGED <<linkVars, sessions, sweeping, born, deletes, chan, active, signalled, reads, call>>

TimeoutElapses(s) ==
    /\ s \in Alive \ (signalled \cup timeouted)
    /\ timeouted' = timeouted \cup {s}
    /\ UNCHANGED <<linkVars, sessions, sweeping, born, deletes, chan, active, signalled, reads, call>>

SessionTimeoutThread(s) == TakeSignal(s) \/ TimeoutElapses(s)

(* Variant: an active session is spared.                                   *)
SweepInactive ==
    /\ ~sweeping
    /\ sweeping' = TRUE
    /\ Delete((Listed \cap timeouted) \ active)
    /\ UNCHANGED <<linkVars, sessions, born, call>>

(* SessionsTimeoutThread, under m_hSessionsMutex: the sessions that ended  *)
(* are deleted while they are still in the list ...                        *)
SweepBegin ==
    /\ ~sweeping
    /\ sweeping' = TRUE
    /\ Delete(Listed \cap timeouted)
    /\ UNCHANGED <<linkVars, sessions, born, call>>

(* ... and the list is replaced by the one of the others.                  *)
SweepEnd ==
    /\ sweeping
    /\ sweeping' = FALSE
    /\ sessions' = Keep(sessions, Alive)
    /\ UNCHANGED <<linkVars, born, deletes, sessionVars, call>>

-----------------------------------------------------------------------------
Init ==
    /\ link = [c \in Channel |-> "new"]
    /\ resumes = 0
    /\ channels = {}
    /\ sessions = Empty
    /\ sweeping = FALSE
    /\ born = {}
    /\ deletes = [s \in Session |-> 0]
    /\ chan = [s \in Session |-> None]
    /\ active = {}
    /\ timeouted = {}
    /\ signalled = {}
    /\ reads = {}
    /\ call = [c \in Channel |-> Idle]

Events(c) ==
    \/ OpenSecureChannel(c)
    \/ SecureChannelRenewed(c)
    \/ SecureChannelClosed(c)
    \/ TransportConnectionClosed(c)
    \/ RemoveLostSession(c)

Services(c) ==
    \/ AddSessionServer(c)
    \/ ActivateSession(c)
    \/ CloseSession(c)
    \/ RunService(c)
    \/ \E s \in Session : \/ CreateSession(c, s)
                          \/ FindToActivate(c, s)
                          \/ FindToClose(c, s)
                          \/ FindForService(c, s)

Threads ==
    \/ SweepBegin
    \/ SweepEnd
    \/ \E s \in Session : AsyncRequestThread(s) \/ SessionTimeoutThread(s)

Next == Threads \/ \E c \in Channel : Events(c) \/ Services(c)

Spec == Init /\ [][Next]_vars

(* The threads run all the time, and no one else holds m_hSessionsMutex    *)
(* across steps.  Nothing is assumed of clients, channels and services.    *)
Fairness ==
    /\ WF_vars(SweepBegin)
    /\ WF_vars(SweepEnd)
    /\ \A s \in Session : WF_vars(SessionTimeoutThread(s))

FairSpec == Spec /\ Fairness

-----------------------------------------------------------------------------
TypeOK ==
    /\ link \in [Channel -> {"new", "open", "lost", "closed"}]
    /\ resumes \in 0..MaxResumes
    /\ channels \subseteq Channel
    /\ sessions \in OrderedSets(Session)
    /\ IsOrdered(sessions)
    /\ sweeping \in BOOLEAN
    /\ born \subseteq Session
    /\ deletes \in [Session -> Nat]
    /\ chan \in [Session -> Channel \cup {None}]
    /\ active \subseteq Session
    /\ timeouted \subseteq Session
    /\ signalled \subseteq Session
    /\ reads \subseteq Session
    /\ call \in [Channel -> [op : Ops, session : Session \cup {None}]]

(* No session is deleted twice: a close, a lost connection and the timeout *)
(* thread may all have found the same one (RemoveSessionServer looks again *)
(* before it deletes).                                                     *)
DeletedOnce == \A s \in Session : deletes[s] <= 1

(* Whoever holds m_hSessionsMutex finds only sessions that exist.          *)
ListedIsAlive == SessionsMutexFree => Listed \subseteq Alive

(* A session that can be found never points to a deleted channel: its      *)
(* channel is in the list, or it was created on a channel the server had   *)
(* closed and has none (CloseSecureChannel, SetSecureChannel).             *)
NoDanglingChannel ==
    \A s \in Listed \cap Alive : chan[s] \in channels \cup {None}

(* The parts of the inductive invariant.  A session that was not created   *)
(* yet was not deleted, and a listed one was created.                      *)
ListedIsBorn ==
    /\ \A s \in Session \ born : deletes[s] = 0
    /\ Listed \subseteq born

(* m_hMutex is held by one channel at most.                                *)
OneHolder ==
    \A c, d \in Channel : c # d => \/ call[c].op \in {"none", "service"}
                                  \/ call[d].op \in {"none", "service"}

(* A session about to be listed exists, is not listed, and its channel     *)
(* was not closed since it was constructed.                                *)
AddedIsFresh ==
    \A c \in Channel :
       call[c].op = "add" =>
          /\ call[c].session \in Alive \ Listed
          /\ chan[call[c].session] \in channels \cup {None}

(* A session found to be removed is still on the channel it was found on.  *)
RemovedIsOnChannel ==
    \A c \in Channel :
       /\ call[c].op \in {"close", "disconnect"}
       /\ call[c].session \in Listed \cap Alive
       => chan[call[c].session] = c

IInv ==
    /\ TypeOK
    /\ ListedIsBorn
    /\ DeletedOnce
    /\ ListedIsAlive
    /\ OneHolder
    /\ AddedIsFresh
    /\ RemovedIsOnChannel
    /\ NoDanglingChannel

(* Why a step may delete a session.                                        *)
EndsForCause(s) ==
    deletes'[s] # deletes[s] =>
       \/ s \in timeouted
       \/ \E c \in Channel : /\ chan[s] = c
                             /\ call[c].op \in {"close", "disconnect"}
                             /\ call[c].session = s

(* A session is deleted only because it ended, or by the closing or the    *)
(* loss of the channel it is on at that moment: moving to another channel  *)
(* with ActivateSession saves a session from the loss of the old one.      *)
OnlyItsChannelEndsIt == [][\A s \in Session : EndsForCause(s)]_vars

(* A session that ended is deleted (SessionsTimeoutThread).                *)
EndedSessionIsRemoved ==
    \A s \in Session : s \in Listed \cap timeouted ~> s \notin Listed

(* A session no service signals is removed, active or not, whatever is     *)
(* left of its channel.                                                    *)
SilentSessionIsRemoved ==
    \A s \in Session : s \in Listed ~> s \notin Listed \/ s \in signalled

(* The comment "Signal that the session is alive" of every service: the    *)
(* session a service uses exists.  The timeout thread may have deleted it. *)
UsedSessionIsAlive ==
    \A c \in Channel : call[c].op \in {"service", "activate", "close"}
                          => call[c].session \in Alive
=============================================================================
