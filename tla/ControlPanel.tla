---------------------------- MODULE ControlPanel ----------------------------
(***************************************************************************)
(* Live reload of the control panel, src/rws/control_panel.rs: the file    *)
(* watcher's thread, the watch channel that keeps the newest path only,    *)
(* the ReloadServer actor with its table of sessions and the task that     *)
(* reads the channel, a WebSocketSession actor for every connection and    *)
(* the pages of src/control-panel/src/app.js, which reload on any message. *)
(*                                                                         *)
(* A change of the files stands for the path it is reported with; paths    *)
(* are numbered in the order of the changes, and 0 is the empty path the   *)
(* channel is made with.  A page connects anew after every reload.         *)
(***************************************************************************)
EXTENDS Naturals, Sequences, FiniteSets

CONSTANTS
    Pages,          \* browser tabs
    MaxConnections, \* how often each page connects
    MaxChanges,     \* how many changes are made to the files
    Unanswered      \* 0, the id of a session before its Connect is answered

Sessions == UNION {{p} \X (1..MaxConnections[p]) : p \in Pages}
PageOf(s) == s[1]

ASSUME BoundsAssumption ==
    /\ MaxConnections \in [Pages -> Nat]
    /\ MaxChanges \in Nat
    /\ Unanswered \notin Sessions

VARIABLES
    files,      \* the number of the last change to the files
    channel,    \* the number of the path in the watch channel
    received,   \* the paths up to this one have been received, or replaced
    unseen,     \* the receiver has not seen the value in the channel
    mailbox,    \* of the ReloadServer
    sessions,   \* its table
    session,    \* the WebSocketSession actors
    page        \* how often a page has connected, and whether it is connected

vars == <<files, channel, received, unseen, mailbox, sessions, session, page>>

Init ==
    /\ files = 0
    /\ channel = 0 /\ received = 0
    /\ unseen = TRUE  \* a new receiver gets the initial value at once
    /\ mailbox = <<>>
    /\ sessions = {}
    /\ session = [s \in Sessions |->
                    [state |-> "none", id |-> Unanswered, answered |-> FALSE,
                     inbox |-> <<>>, joinedAt |-> 0]]
    /\ page = [p \in Pages |-> [count |-> 0, connected |-> FALSE]]

TypeOK ==
    /\ files \in 0..MaxChanges /\ channel \in 0..files /\ received \in 0..channel
    /\ unseen \in BOOLEAN
    /\ sessions \subseteq Sessions
    /\ mailbox \in Seq({"connect", "disconnect"} \X (Sessions \cup {Unanswered}))
    /\ page \in [Pages -> [count : Nat, connected : BOOLEAN]]
    /\ session \in [Sessions ->
         [state : {"none", "waiting", "open", "stopped"},
          id : Sessions \cup {Unanswered}, answered : BOOLEAN,
          inbox : Seq(0..MaxChanges), joinedAt : 0..MaxChanges]]

(* The page is connected by this session. *)
Shown(s) == page[PageOf(s)] = [count |-> s[2], connected |-> TRUE]

-----------------------------------------------------------------------------
(* The files and their watcher.                                            *)

FileChanges ==
    /\ files < MaxChanges
    /\ files' = files + 1
    /\ UNCHANGED <<channel, received, unseen, mailbox, sessions, session, page>>

(* Mutant: the receiver is not told of a value that replaces another. *)
BroadcastUnheard ==
    /\ channel < files
    /\ channel' = channel + 1
    /\ UNCHANGED <<files, received, unseen, mailbox, sessions, session, page>>

(* The watcher broadcasts one path after the other; each replaces the last. *)
Broadcast ==
    /\ channel < files
    /\ channel' = channel + 1
    /\ unseen' = TRUE
    /\ UNCHANGED <<files, received, mailbox, sessions, session, page>>

(* Mutant: a session that waits for the answer to its Connect is left out. *)
ListeningOpen(s) == s \in sessions /\ session[s].state = "open"

(* The task of ReloadServer passes the newest path to every session it has *)
(* in its table; one that has stopped drops it.                            *)
Listening(s) == s \in sessions /\ session[s].state # "stopped"
Receive ==
    /\ unseen
    /\ unseen' = FALSE
    /\ received' = channel
    /\ session' = [s \in Sessions |->
                     IF Listening(s) THEN [session[s] EXCEPT !.inbox = Append(@, channel)]
                                     ELSE session[s]]
    /\ UNCHANGED <<files, channel, mailbox, sessions, page>>

-----------------------------------------------------------------------------
(* The mailbox of ReloadServer.                                            *)

(* The random id is unique: the session itself. *)
HandleConnect ==
    /\ mailbox # <<>> /\ Head(mailbox)[1] = "connect"
    /\ LET s == Head(mailbox)[2]
       IN  /\ sessions' = sessions \cup {s}
           /\ session' = [session EXCEPT ![s].answered = TRUE,
                                         ![s].joinedAt = received]
    /\ mailbox' = Tail(mailbox)
    /\ UNCHANGED <<files, channel, received, unseen, page>>

HandleDisconnect ==
    /\ mailbox # <<>> /\ Head(mailbox)[1] = "disconnect"
    /\ sessions' = sessions \ {Head(mailbox)[2]}
    /\ mailbox' = Tail(mailbox)
    /\ UNCHANGED <<files, channel, received, unseen, session, page>>

-----------------------------------------------------------------------------
(* The sessions.  While started() waits for the answer to Connect a        *)
(* session handles no message.                                             *)

Answer(s) ==
    /\ session[s].state = "waiting" /\ session[s].answered
    /\ session' = [session EXCEPT ![s].state = "open", ![s].id = s]
    /\ UNCHANGED <<files, channel, received, unseen, mailbox, sessions, page>>

(* The session's message makes its page reload, which leaves the session.  *)
(* Once the page has left, nobody reads the messages.                      *)
HandleMessage(s) ==
    /\ session[s].state = "open" /\ session[s].inbox # <<>>
    /\ session' = [session EXCEPT ![s].inbox = Tail(@)]
    /\ page' = IF Shown(s) THEN [page EXCEPT ![PageOf(s)].connected = FALSE] ELSE page
    /\ UNCHANGED <<files, channel, received, unseen, mailbox, sessions>>

(* Mutant: a session that has messages left does not disconnect. *)
StopQuietly(s) ==
    /\ session[s].state \in {"waiting", "open"}
    /\ ~Shown(s)
    /\ session' = [session EXCEPT ![s].state = "stopped", ![s].inbox = <<>>]
    /\ mailbox' = IF session[s].inbox = <<>>
                  THEN Append(mailbox, <<"disconnect", session[s].id>>) ELSE mailbox
    /\ UNCHANGED <<files, channel, received, unseen, sessions, page>>

(* The connection of a page that has left is noticed.  stopping() sends    *)
(* the id the session knows.                                               *)
Stop(s) ==
    /\ session[s].state \in {"waiting", "open"}
    /\ ~Shown(s)
    /\ session' = [session EXCEPT ![s].state = "stopped", ![s].inbox = <<>>]
    /\ mailbox' = Append(mailbox, <<"disconnect", session[s].id>>)
    /\ UNCHANGED <<files, channel, received, unseen, sessions, page>>

-----------------------------------------------------------------------------
(* The pages.                                                              *)

(* A page opens its connection some time after it has loaded the files.    *)
Connect(p) ==
    /\ ~page[p].connected /\ page[p].count < MaxConnections[p]
    /\ LET s == <<p, page[p].count + 1>>
       IN  /\ page' = [page EXCEPT ![p].count = @ + 1, ![p].connected = TRUE]
           /\ session' = [session EXCEPT ![s].state = "waiting"]
           /\ mailbox' = Append(mailbox, <<"connect", s>>)
    /\ UNCHANGED <<files, channel, received, unseen, sessions>>

(* The user closes the page or loads it anew, at any time. *)
Leave(p) ==
    /\ page[p].connected
    /\ page' = [page EXCEPT ![p].connected = FALSE]
    /\ UNCHANGED <<files, channel, received, unseen, mailbox, sessions, session>>

HandleMail == HandleConnect \/ HandleDisconnect

Next ==
    \/ FileChanges \/ Broadcast \/ Receive \/ HandleMail
    \/ \E s \in Sessions : Answer(s) \/ HandleMessage(s) \/ Stop(s)
    \/ \E p \in Pages : Connect(p) \/ Leave(p)

(* The actors and the task run when they have something to do, and a       *)
(* connection that has ended is noticed.  Changes and pages are free.      *)
Spec ==
    /\ Init /\ [][Next]_vars
    /\ WF_vars(Receive) /\ WF_vars(HandleMail)
    /\ \A s \in Sessions :
          WF_vars(Answer(s)) /\ WF_vars(HandleMessage(s)) /\ WF_vars(Stop(s))

-----------------------------------------------------------------------------
(* Properties.                                                             *)

(* The channel may skip paths, and a page may miss what was received       *)
(* before it was registered, but nothing after: while a page stays on its  *)
(* session, the session has the newest path in its mailbox, after older    *)
(* ones only, or nothing was received since it joined.                     *)
ToldOfEverything ==
    \A s \in Sessions :
        Shown(s) /\ s \in sessions =>
            LET inbox == session[s].inbox
            IN  /\ received # session[s].joinedAt =>
                      inbox # <<>> /\ inbox[Len(inbox)] = received
                /\ \A i \in 1..(Len(inbox) - 1) : inbox[i] < inbox[i + 1]

(* The table holds no session that has stopped, unless its Disconnect is   *)
(* on its way or it stopped before the answer to its Connect: that one     *)
(* disconnected as 0 and its entry stays.                                  *)
GhostsWereUnanswered ==
    \A s \in sessions :
        session[s].state = "stopped" =>
            \/ session[s].id = Unanswered
            \/ \E i \in 1..Len(mailbox) : mailbox[i] = <<"disconnect", s>>

(* A page that is registered when the watcher broadcasts a path leaves its *)
(* session in the end: it reloads, whatever paths were replaced.           *)
EveryPageReloads ==
    \A s \in Sessions :
        (Shown(s) /\ s \in sessions /\ channel > received) ~> ~Shown(s)
=============================================================================
