---------------------------- MODULE Conversation ----------------------------
(***************************************************************************)
(* The live conversation feed of a Citadel: the hub with its bounded       *)
(* history and its bounded, lossy subscriber channels                      *)
(* (controlplane/conversation.go), and the WebSocket handler that          *)
(* subscribes before it reads the history (server/conversation.go).        *)
(* Feeds of different Citadels share nothing; one is modelled.             *)
(***************************************************************************)
EXTENDS Integers, Sequences

CONSTANTS
  Observer,      \* connections of observers
  HistoryLimit,  \* conversationHistoryLimit
  SubscriberBuf, \* conversationSubscriberBuf
  MaxMessages    \* bound on the messages published

ASSUME ConversationAssumption ==
  HistoryLimit \in Nat \ {0} /\ SubscriberBuf \in Nat \ {0} /\ MaxMessages \in Nat

VARIABLES
  convSession, \* the session: "live", "removed" (from the table) or "forgotten"
  nextID,    \* ID of the newest message
  history,   \* conversationStream.history, as IDs
  subs,      \* observers whose channel is in conversationStream.subs
  chan,      \* chan[o]: the channel of o
  closed,    \* channels that are closed
  obs,       \* obs[o]: the handler of o
  publisher, \* a publication between its check of the session and the hub
  lost       \* history: lost[o] are the IDs that overflow took from o's channel

convVars == <<convSession, nextID, history, subs, chan, closed, obs, publisher, lost>>
hub == <<nextID, history, subs, chan, closed, lost>>

NoHandler == [pc |-> "none", backlog |-> <<>>, got |-> <<>>, from |-> 0]

ConvInit ==
  /\ convSession = "live" /\ nextID = 0 /\ history = <<>> /\ subs = {}
  /\ chan = [o \in Observer |-> <<>>] /\ closed = {}
  /\ obs = [o \in Observer |-> NoHandler]
  /\ publisher = "idle"
  /\ lost = [o \in Observer |-> {}]

lastID(o) == IF obs[o].got = <<>> THEN 0 ELSE obs[o].got[Len(obs[o].got)]

\* The messages of a channel or of what an observer was sent.
IDs(messages) == {messages[i] : i \in DOMAIN messages}

-----------------------------------------------------------------------------
(* Publishing *)

\* PublishConversation checks the session and scrubs the content.
CheckPublish ==
  /\ publisher = "idle" /\ convSession = "live" /\ nextID < MaxMessages
  /\ publisher' = "checked"
  /\ UNCHANGED <<convSession, hub, obs>>

\* Mutant of Offer: a full channel keeps what it has.
OfferKeepsOld(q, m) == IF Len(q) < SubscriberBuf THEN Append(q, m) ELSE q

\* A full channel gives up its oldest message.
Offer(q, m) == IF Len(q) < SubscriberBuf THEN Append(q, m) ELSE Append(Tail(q), m)

\* publish, under the lock of the hub.
Publish ==
  /\ publisher = "checked"
  /\ publisher' = "idle"
  /\ nextID' = nextID + 1
  /\ LET h == Append(history, nextID + 1) IN
     history' = IF Len(h) > HistoryLimit THEN Tail(h) ELSE h
  /\ chan' = [o \in Observer |-> IF o \in subs THEN Offer(chan[o], nextID + 1) ELSE chan[o]]
  /\ lost' = [o \in Observer |-> IF o \in subs
                               THEN lost[o] \cup ((IDs(chan[o]) \cup {nextID + 1}) \ IDs(chan'[o]))
                               ELSE lost[o]]
  /\ UNCHANGED <<convSession, subs, closed, obs>>

-----------------------------------------------------------------------------
(* An observer: handleConversationStream *)

\* SubscribeConversation finds the session.
CheckSubscribe(o) ==
  /\ obs[o].pc = "none" /\ convSession = "live"
  /\ obs' = [obs EXCEPT ![o].pc = "checked"]
  /\ UNCHANGED <<convSession, hub, publisher>>

\* The channel enters the stream; a stream that was forgotten is made anew.
Observe(o) ==
  /\ obs[o].pc = "checked"
  /\ subs' = subs \cup {o}
  /\ obs' = [obs EXCEPT ![o].pc = "subscribed"]
  /\ UNCHANGED <<convSession, nextID, history, chan, closed, publisher, lost>>

End(o) ==
  /\ obs' = [obs EXCEPT ![o].pc = "ended", ![o].backlog = <<>>]
  /\ subs' = subs \ {o}

\* ConversationHistory, which looks for the session again.
ReadHistory(o) ==
  /\ obs[o].pc = "subscribed"
  /\ \/ /\ convSession = "live"
        /\ obs' = [obs EXCEPT ![o].pc = "replay", ![o].backlog = history,
                              ![o].from = IF history = <<>> THEN nextID + 1 ELSE Head(history)]
        /\ UNCHANGED subs
     \/ convSession # "live" /\ End(o)
  /\ UNCHANGED <<convSession, nextID, history, chan, closed, publisher, lost>>

\* One message of the history is written.
Replay(o) ==
  /\ obs[o].pc = "replay"
  /\ obs' = IF obs[o].backlog = <<>> THEN [obs EXCEPT ![o].pc = "live"]
            ELSE [obs EXCEPT ![o].backlog = Tail(@), ![o].got = Append(@, Head(obs[o].backlog))]
  /\ UNCHANGED <<convSession, hub, publisher>>

\* One message of the channel, written unless the history had it.
TakeMessage(o) ==
  /\ obs[o].pc = "live" /\ chan[o] # <<>>
  /\ chan' = [chan EXCEPT ![o] = Tail(@)]
  /\ obs' = IF Head(chan[o]) <= lastID(o) THEN obs
            ELSE [obs EXCEPT ![o].got = Append(@, Head(chan[o]))]
  /\ UNCHANGED <<convSession, nextID, history, subs, closed, publisher, lost>>

\* The channel was closed: the Citadel ended.
SeeClosed(o) ==
  /\ obs[o].pc = "live" /\ chan[o] = <<>> /\ o \in closed
  /\ End(o)
  /\ UNCHANGED <<convSession, nextID, history, chan, closed, publisher, lost>>

\* The client goes away, a write fails, or the client sent data.
Disconnect(o) ==
  /\ obs[o].pc \in {"subscribed", "replay", "live"}
  /\ End(o)
  /\ UNCHANGED <<convSession, nextID, history, chan, closed, publisher, lost>>

-----------------------------------------------------------------------------
(* KillSandbox *)

RemoveSession ==
  /\ convSession = "live"
  /\ convSession' = "removed"
  /\ UNCHANGED <<hub, obs, publisher>>

\* hub.forget: the stream goes and its channels are closed.  What a late
\* publication or subscription finds is a new stream.
Forget ==
  /\ convSession = "removed"
  /\ convSession' = "forgotten"
  /\ closed' = closed \cup subs
  /\ subs' = {} /\ nextID' = 0 /\ history' = <<>>
  /\ UNCHANGED <<chan, obs, publisher, lost>>

-----------------------------------------------------------------------------
Serve(o) == Observe(o) \/ ReadHistory(o) \/ Replay(o) \/ TakeMessage(o) \/ SeeClosed(o)

ConvNext ==
  \/ CheckPublish \/ Publish \/ RemoveSession \/ Forget
  \/ \E o \in Observer : CheckSubscribe(o) \/ Serve(o) \/ Disconnect(o)

ConvSpec == ConvInit /\ [][ConvNext]_convVars

\* A handler goes on as long as it has something to do, and so does a kill.
ConvFairness == WF_convVars(Forget) /\ \A o \in Observer : WF_convVars(Serve(o))

-----------------------------------------------------------------------------
(* Properties *)

\* An observer sees the messages in order, each once, from the first of the
\* history it was given, and misses only what an overflow took from its channel;
\* and an overflow never takes the newest: as long as the stream lasts that one
\* is still ahead of the observer or was seen.
FeedHasNoGap ==
  \A o \in Observer :
    LET seen == IDs(obs[o].got) IN
    /\ \A i \in 1 .. Len(obs[o].got) - 1 : obs[o].got[i] < obs[o].got[i + 1]
    /\ obs[o].from > 0 => obs[o].from .. lastID(o) \subseteq seen \cup lost[o]
    /\ obs[o].pc = "live" /\ o \in subs /\ nextID > 0 => nextID \in seen \cup IDs(chan[o])

\* When a Citadel is killed the handlers of all its observers come to an end,
\* wherever the kill met them.
ObserversAreReleased ==
  convSession = "forgotten" ~> \A o \in Observer : obs[o].pc \in {"none", "ended"}
=============================================================================
