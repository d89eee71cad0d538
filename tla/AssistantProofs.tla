-------------------------- MODULE AssistantProofs --------------------------
(***************************************************************************)
(* Theorems about the copilot and its WhatsApp channel, for any tools, any *)
(* batch, any number of workers and whatever the model answers.  Two       *)
(* invariants do the work: the mutation the page waits for is the only one *)
(* and its question is the last message (Waiting), and the replies a       *)
(* message got and those the workers still owe it are covered by the       *)
(* deliveries (Covered).                                                   *)
(***************************************************************************)
EXTENDS Assistant, Rows, FiniteSetTheorems

-----------------------------------------------------------------------------
(* What an action writes for a call of the engine.                         *)
LEMMA Shapes ==
  /\ NoExchange \in Exchange /\ NoExchange.at = "idle"
  /\ \A s \in {"guard", "ask", "failed"} :
       LET x == [NoExchange EXCEPT !.at = s] IN
       x \in Exchange /\ x.at = s /\ x.results = x.asked
<1>1. {} \in SUBSET Tools
  OBVIOUS
<1> QED
  BY <1>1 DEF NoExchange, Exchange

LEMMA Written ==
  ASSUME AssistantTypeOK, NEW e \in Exchanges, NEW x \in Exchange,
         exchange' = [exchange EXCEPT ![e] = x]
  PROVE  /\ exchange' \in [Exchanges -> Exchange]
         /\ exchange'[e] = x
         /\ \A f \in Exchanges \ {e} : exchange'[f] = exchange[f]
  BY DEF AssistantTypeOK

LEMMA Begun ==
  ASSUME AssistantTypeOK, NEW e \in Exchanges, NEW s \in {"guard", "ask", "failed"}, Begin(e, s)
  PROVE  /\ exchange' \in [Exchanges -> Exchange]
         /\ exchange'[e].at = s /\ exchange'[e].results = exchange'[e].asked
         /\ \A f \in Exchanges \ {e} : exchange'[f] = exchange[f]
  BY Shapes, Written DEF Begin

LEMMA Ended ==
  ASSUME AssistantTypeOK, NEW e \in Exchanges, End(e)
  PROVE  /\ exchange' \in [Exchanges -> Exchange]
         /\ exchange'[e].at = "idle"
         /\ \A f \in Exchanges \ {e} : exchange'[f] = exchange[f]
  BY Shapes, Written DEF End

\* A turn of the engine, or its failure, concerns its call only.
LEMMA EngineTurn ==
  ASSUME AssistantTypeOK, NEW e \in Exchanges, EngineSteps(e) \/ FailExchange(e)
  PROVE  /\ exchange' \in [Exchanges -> Exchange]
         /\ exchange'[e].at \in {"ask", "tools", "answered", "failed"}
         /\ \A f \in Exchanges \ {e} : exchange'[f] = exchange[f]
         /\ Running(e)
         /\ UnchangedPage /\ UnchangedInbound
<1>1. Running(e) /\ UnchangedPage /\ UnchangedInbound
  BY DEF EngineSteps, AskModel, ExecuteTool, FailExchange, Running
<1>2. exchange[e] \in Exchange
  BY DEF AssistantTypeOK
<1>3. CASE Begin(e, "failed")
  BY <1>1, <1>3, Begun
<1>4. CASE \E long \in BOOLEAN : Answered(e, long)
  <2>1. PICK long \in BOOLEAN : Answered(e, long)
    BY <1>4
  <2>2. PICK x : x = [NoExchange EXCEPT !.at = "answered", !.long = long]
    OBVIOUS
  <2>3. x \in Exchange /\ x.at = "answered"
    BY <2>2 DEF NoExchange, Exchange
  <2> QED
    BY <1>1, <2>1, <2>2, <2>3, Written DEF Answered
<1>5. CASE \E tools \in SUBSET Tools \ {{}} : Requested(e, exchange[e].round + 1, tools)
  <2>1. PICK tools \in SUBSET Tools : Requested(e, exchange[e].round + 1, tools)
    BY <1>5
  <2>2. PICK x : x = [NoExchange EXCEPT !.at = "tools", !.round = exchange[e].round + 1,
                                        !.asked = tools]
    OBVIOUS
  <2>3. exchange[e].round + 1 \in Nat
    BY <1>2 DEF Exchange
  <2>4. x \in Exchange /\ x.at = "tools"
    BY <2>2, <2>3 DEF NoExchange, Exchange
  <2> QED
    BY <1>1, <2>1, <2>2, <2>4, Written DEF Requested
<1>6. CASE ExecuteTool(e)
  <2>1. PICK t \in exchange[e].asked \ exchange[e].results :
          LET results == exchange[e].results \cup {t} IN
          exchange' = [exchange EXCEPT ![e] =
            [@ EXCEPT !.results = results,
                      !.at = IF results = exchange[e].asked THEN "ask" ELSE "tools"]]
    BY <1>6 DEF ExecuteTool
  <2>2. PICK r : r = exchange[e].results \cup {t}
    OBVIOUS
  <2>3. PICK s : s = IF r = exchange[e].asked THEN "ask" ELSE "tools"
    OBVIOUS
  <2>4. PICK x : x = [exchange[e] EXCEPT !.results = r, !.at = s]
    OBVIOUS
  <2>5. r \in SUBSET Tools
    BY <1>2, <2>1, <2>2 DEF Exchange
  <2>6. x \in Exchange /\ x.at = s /\ x.results = r /\ x.asked = exchange[e].asked
    BY <1>2, <2>3, <2>4, <2>5 DEF Exchange
  <2>7. exchange' = [exchange EXCEPT ![e] = x]
    BY <2>1, <2>2, <2>3, <2>4 DEF AssistantTypeOK
  <2> QED
    BY <1>1, <2>3, <2>6, <2>7, Written
<1> QED
  BY <1>3, <1>4, <1>5, <1>6 DEF EngineSteps, AskModel, FailExchange

\* The quota counts a call; its body decides whether it goes on.
LEMMA Counted ==
  ASSUME AssistantTypeOK, NEW e \in Exchanges, ConsumeQuota(e)
  PROVE  /\ exchange[e].at = "guard"
         /\ exchange' \in [Exchanges -> Exchange]
         /\ exchange'[e].at \in {"ask", "failed"}
         /\ exchange'[e].results = exchange[e].results
         /\ exchange'[e].asked = exchange[e].asked
         /\ \A f \in Exchanges \ {e} : exchange'[f] = exchange[f]
         /\ used' \in Nat
         /\ UNCHANGED <<messages, listening>> /\ UnchangedInbound
<1>1. exchange[e] \in Exchange /\ used \in Nat
  BY DEF AssistantTypeOK
<1>2. PICK s \in {"ask", "failed"} : exchange' = [exchange EXCEPT ![e].at = s]
  BY DEF ConsumeQuota, Move
<1>3. PICK x : x = [exchange[e] EXCEPT !.at = s]
  OBVIOUS
<1>4. x \in Exchange /\ x.at = s /\ x.results = exchange[e].results /\ x.asked = exchange[e].asked
  BY <1>1, <1>3 DEF Exchange
<1>5. exchange' = [exchange EXCEPT ![e] = x]
  BY <1>2, <1>3 DEF AssistantTypeOK
<1>6. used' \in Nat /\ exchange[e].at = "guard"
  BY <1>1 DEF ConsumeQuota
<1>7. UNCHANGED <<messages, listening>> /\ UnchangedInbound
  BY DEF ConsumeQuota
<1> QED
  BY <1>4, <1>5, <1>6, <1>7, Written

-----------------------------------------------------------------------------
(* Types.                                                                  *)
LEMMA AssistantInits ==
  AssistantInit => AssistantTypeOK
<1> SUFFICES ASSUME AssistantInit PROVE AssistantTypeOK
  OBVIOUS
<1>1. <<>> \in Seq(Message)
  OBVIOUS
<1>2. \A e \in Exchanges : exchange[e].at = "idle"
  BY Shapes DEF AssistantInit
<1> QED
  BY <1>1, <1>2, Shapes DEF AssistantInit, AssistantTypeOK

\* A message displayed is added at the end of the conversation.
LEMMA Shown ==
  ASSUME AssistantTypeOK, NEW role \in {"user", "assistant"}, NEW long \in BOOLEAN,
         Show(role, long)
  PROVE  /\ messages' \in Seq(Message)
         /\ Len(messages') = Len(messages) + 1 /\ Len(messages) \in Nat
         /\ messages'[Len(messages')].role = role
         /\ \A i \in 1..Len(messages) : messages'[i] = messages[i]
<1>1. PICK m : m = [role |-> role, long |-> long]
  OBVIOUS
<1>2. m \in Message /\ m.role = role
  BY <1>1 DEF Message
<1>3. messages \in Seq(Message) /\ messages' = Append(messages, m)
  BY <1>1 DEF AssistantTypeOK, Show
<1> QED
  BY <1>2, <1>3, Appended

\* The page: its types, whatever a mutation does, and the calls it may run.
LEMMA PageTypes ==
  ASSUME AssistantTypeOK, PageNext
  PROVE  AssistantTypeOK'
<1> USE DEF Mutations
<1>e. Mutations \subseteq Exchanges
  BY DEF Exchanges
<1>t. /\ messages \in Seq(Message) /\ listening \subseteq Mutations /\ used \in Nat
      /\ exchange \in [Exchanges -> Exchange]
  BY DEF AssistantTypeOK
<1>1. CASE SendMessage
  <2>1. Begin("chat", "guard") /\ Show("user", FALSE) /\ listening' = listening \cup {"chat"}
    BY <1>1 DEF SendMessage
  <2>2. messages' \in Seq(Message) /\ listening' \subseteq Mutations
    BY <2>1, <1>t, Shown
  <2>3. exchange' \in [Exchanges -> Exchange]
    BY <2>1, <1>e, Begun
  <2> QED
    BY <1>1, <2>2, <2>3 DEF SendMessage, UnchangedInbound, AssistantTypeOK
<1>2. CASE HandleDailyReport
  <2>1. Begin("report", "guard") /\ Show("user", FALSE) /\ listening' = listening \cup {"report"}
    BY <1>2 DEF HandleDailyReport
  <2>2. messages' \in Seq(Message) /\ listening' \subseteq Mutations
    BY <2>1, <1>t, Shown
  <2>3. exchange' \in [Exchanges -> Exchange]
    BY <2>1, <1>e, Begun
  <2> QED
    BY <1>2, <2>2, <2>3 DEF HandleDailyReport, UnchangedInbound, AssistantTypeOK
<1>3. CASE HandleSendWhatsAppReport
  <2>1. Begin("whatsapp", "ask") /\ listening' = listening \cup {"whatsapp"}
    BY <1>3 DEF HandleSendWhatsAppReport
  <2>2. listening' \subseteq Mutations
    BY <2>1, <1>t
  <2>3. exchange' \in [Exchanges -> Exchange]
    BY <2>1, <1>e, Begun
  <2> QED
    BY <1>3, <2>2, <2>3 DEF HandleSendWhatsAppReport, UnchangedInbound, AssistantTypeOK
<1>4. CASE ClearConversation \/ LeavePage
  <2>1. messages' = <<>> /\ listening' \subseteq Mutations /\ UNCHANGED <<used, exchange>>
    BY <1>4, <1>t DEF ClearConversation, LeavePage
  <2>2. messages' \in Seq(Message)
    BY <2>1
  <2>3. UnchangedInbound
    BY <1>4 DEF ClearConversation, LeavePage
  <2> QED
    BY <2>1, <2>2, <2>3 DEF UnchangedInbound, AssistantTypeOK
<1>5. ASSUME NEW e \in Mutations, PageSteps(e) \/ FailExchange(e)
      PROVE  AssistantTypeOK'
  <2>1. e \in Exchanges
    BY <1>e
  <2>2. CASE ConsumeQuota(e)
    <3>1. /\ exchange' \in [Exchanges -> Exchange] /\ used' \in Nat
          /\ UNCHANGED <<messages, listening>> /\ UnchangedInbound
      BY <2>1, <2>2, Counted
    <3> QED
      BY <3>1 DEF UnchangedInbound, AssistantTypeOK
  <2>3. CASE EngineSteps(e) \/ FailExchange(e)
    <3>1. /\ exchange' \in [Exchanges -> Exchange] /\ UnchangedPage /\ UnchangedInbound
      BY <2>1, <2>3, EngineTurn
    <3> QED
      BY <3>1 DEF UnchangedPage, UnchangedInbound, AssistantTypeOK
  <2>4. CASE Conclude(e)
    <3>1. exchange[e] \in Exchange
      BY <2>1, <1>t
    <3>2. messages' \in Seq(Message)
      <4>1. Show("assistant", exchange[e].long) \/ UNCHANGED messages
        BY <2>4 DEF Conclude
      <4>2. exchange[e].long \in BOOLEAN
        BY <3>1 DEF Exchange
      <4> QED
        BY <4>1, <4>2, <1>t, Shown
    <3>3. /\ End(e) /\ listening' = listening \ {e} /\ UNCHANGED used /\ UnchangedInbound
      BY <2>4 DEF Conclude
    <3>4. exchange' \in [Exchanges -> Exchange]
      BY <2>1, <3>3, Ended
    <3> QED
      BY <1>t, <3>2, <3>3, <3>4 DEF UnchangedInbound, AssistantTypeOK
  <2> QED
    BY <1>5, <2>2, <2>3, <2>4 DEF PageSteps
<1> QED
  BY <1>1, <1>2, <1>3, <1>4, <1>5 DEF PageNext

LEMMA InboundTypes ==
  ASSUME AssistantTypeOK, InboundNext
  PROVE  AssistantTypeOK' /\ UnchangedPage
<1>1. PICK w \in Workers : ReceiveWebhook(w) \/ InboundSteps(w) \/ FailExchange(w)
  BY DEF InboundNext
<1>e. w \in Exchanges
  BY DEF Exchanges
<1>t. /\ position \in [Workers -> Nat] /\ replies \in [BatchMessages -> Nat]
      /\ received \in BOOLEAN /\ deliveries \in Nat /\ lostAcks \in Nat
      /\ position[w] \in Nat
  BY DEF AssistantTypeOK
<1>2. CASE EngineSteps(w) \/ FailExchange(w)
  <2>1. /\ exchange' \in [Exchanges -> Exchange] /\ UnchangedPage /\ UnchangedInbound
    BY <1>e, <1>2, EngineTurn
  <2> QED
    BY <2>1 DEF UnchangedPage, UnchangedInbound, AssistantTypeOK
<1>3. CASE ReceiveWebhook(w)
  <2>1. position' \in [Workers -> Nat] /\ deliveries' \in Nat /\ lostAcks' \in Nat
    BY <1>3, <1>t DEF ReceiveWebhook
  <2>2. received' = TRUE \/ received' = FALSE
    BY <1>3 DEF ReceiveWebhook
  <2> QED
    BY <1>3, <2>1, <2>2 DEF ReceiveWebhook, UnchangedPage, AssistantTypeOK
<1>4. CASE NextInbound(w)
  <2>1. \/ UNCHANGED position /\ Begin(w, "ask")
        \/ position' = [position EXCEPT ![w] = 0] /\ UNCHANGED exchange
        \/ position' = [position EXCEPT ![w] = @ + 1] /\ UNCHANGED exchange
    BY <1>4 DEF NextInbound
  <2>2. position' \in [Workers -> Nat]
    BY <2>1, <1>t
  <2>3. exchange' \in [Exchanges -> Exchange]
    BY <2>1, <1>e, Begun DEF AssistantTypeOK
  <2> QED
    BY <1>4, <2>2, <2>3 DEF NextInbound, UnchangedPage, AssistantTypeOK
<1>5. CASE SendText(w)
  <2>1. /\ position' = [position EXCEPT ![w] = @ + 1] /\ End(w)
        /\ replies' = [replies EXCEPT ![Batch[position[w]]] = @ + 1]
    BY <1>5 DEF SendText
  <2>2. position' \in [Workers -> Nat]
    BY <2>1, <1>t
  <2>3. exchange' \in [Exchanges -> Exchange]
    BY <2>1, <1>e, Ended
  <2>4. PICK m : m = Batch[position[w]]
    OBVIOUS
  <2>5. ASSUME m \in BatchMessages PROVE replies' \in [BatchMessages -> Nat]
    BY <2>1, <2>4, <2>5, <1>t
  <2>6. ASSUME m \notin BatchMessages PROVE replies' \in [BatchMessages -> Nat]
    BY <2>1, <2>4, <2>6, <1>t
  <2>7. replies' \in [BatchMessages -> Nat]
    BY <2>5, <2>6
  <2> QED
    BY <1>5, <2>2, <2>3, <2>7 DEF SendText, UnchangedPage, AssistantTypeOK
<1>6. CASE DropInbound(w)
  <2>1. position' = [position EXCEPT ![w] = 0] /\ End(w)
    BY <1>6 DEF DropInbound
  <2>2. position' \in [Workers -> Nat]
    BY <2>1, <1>t
  <2>3. exchange' \in [Exchanges -> Exchange]
    BY <2>1, <1>e, Ended
  <2> QED
    BY <1>6, <2>2, <2>3 DEF DropInbound, UnchangedPage, AssistantTypeOK
<1> QED
  BY <1>1, <1>2, <1>3, <1>4, <1>5, <1>6 DEF InboundSteps

LEMMA AssistantTypeNext ==
  AssistantTypeOK /\ [AssistantNext]_assistantVars
    => AssistantTypeOK'
<1> SUFFICES ASSUME AssistantTypeOK, [AssistantNext]_assistantVars
             PROVE  AssistantTypeOK'
  OBVIOUS
<1>1. CASE PageNext
  BY <1>1, PageTypes
<1>2. CASE InboundNext
  BY <1>2, InboundTypes
<1>3. CASE UNCHANGED assistantVars
  BY <1>3 DEF assistantVars, AssistantTypeOK
<1> QED
  BY <1>1, <1>2, <1>3 DEF AssistantNext

-----------------------------------------------------------------------------
(* The conversation: isBusy leaves one mutation at a time to the page, and *)
(* until it is concluded its question is the last message.                 *)
Waiting ==
  /\ \A d, e \in listening : d = e
  /\ listening \cap {"chat", "report"} # {} =>
       Len(messages) > 0 /\ messages[Len(messages)].role = "user"

LEMMA ConversationNext ==
  AssistantTypeOK /\ Waiting /\ AnswersFollowQuestions /\ [AssistantNext]_assistantVars
    => Waiting' /\ AnswersFollowQuestions'
<1> SUFFICES ASSUME AssistantTypeOK, Waiting, AnswersFollowQuestions,
                    [AssistantNext]_assistantVars
             PROVE  Waiting' /\ AnswersFollowQuestions'
  OBVIOUS
<1>t. messages \in Seq(Message) /\ Len(messages) \in Nat /\ DOMAIN messages = 1..Len(messages)
  BY DEF AssistantTypeOK
<1>0. ASSUME UNCHANGED <<messages, listening>> PROVE Waiting' /\ AnswersFollowQuestions'
  BY <1>0 DEF Waiting, AnswersFollowQuestions
<1>1. ASSUME Show("user", FALSE) PROVE AnswersFollowQuestions'
  <2>1. /\ messages' \in Seq(Message) /\ Len(messages') = Len(messages) + 1
        /\ messages'[Len(messages')].role = "user"
        /\ \A i \in 1..Len(messages) : messages'[i] = messages[i]
    BY <1>1, Shown
  <2>2. ASSUME NEW i \in DOMAIN messages', messages'[i].role = "assistant"
        PROVE  i > 1 /\ messages'[i - 1].role = "user"
    <3>1. i \in 1..Len(messages)
      BY <2>1, <2>2, <1>t
    <3>2. i > 1 /\ messages[i - 1].role = "user"
      BY <3>1, <2>1, <2>2, <1>t DEF AnswersFollowQuestions
    <3> QED
      BY <3>1, <3>2, <2>1, <1>t
  <2> QED
    BY <2>2 DEF AnswersFollowQuestions
<1>2. ASSUME NEW e, ~Busy, Show("user", FALSE), listening' = listening \cup {e} PROVE Waiting'
  <2>1. listening' = {e}
    BY <1>2 DEF Busy
  <2>2. /\ Len(messages') = Len(messages) + 1
        /\ messages'[Len(messages')].role = "user"
    BY <1>2, Shown
  <2>3. Len(messages') > 0
    BY <2>2, <1>t
  <2> QED
    BY <2>1, <2>2, <2>3 DEF Waiting
<1>3. CASE SendMessage
  BY <1>3, <1>1, <1>2 DEF SendMessage
<1>4. CASE HandleDailyReport
  BY <1>4, <1>1, <1>2 DEF HandleDailyReport
<1>5. CASE HandleSendWhatsAppReport
  BY <1>5 DEF HandleSendWhatsAppReport, Busy, Waiting, AnswersFollowQuestions
<1>6. CASE ClearConversation \/ LeavePage
  <2>1. messages' = <<>> /\ listening' = {}
    BY <1>6 DEF ClearConversation, LeavePage, Busy
  <2> QED
    BY <2>1 DEF Waiting, AnswersFollowQuestions
<1>7. ASSUME NEW e \in Mutations, PageSteps(e) \/ FailExchange(e)
      PROVE  Waiting' /\ AnswersFollowQuestions'
  <2>1. e \in Exchanges
    BY DEF Exchanges
  <2>2. CASE ConsumeQuota(e) \/ EngineSteps(e) \/ FailExchange(e)
    BY <2>1, <2>2, <1>0, Counted, EngineTurn DEF UnchangedPage
  <2>3. CASE Conclude(e)
    <3>1. listening' = listening \ {e}
      BY <2>3 DEF Conclude
    <3>2. CASE UNCHANGED messages
      BY <3>1, <3>2 DEF Waiting, AnswersFollowQuestions
    <3>3. CASE /\ e \in listening /\ e # "whatsapp"
               /\ Show("assistant", exchange[e].long)
      <4>1. exchange[e].long \in BOOLEAN
        BY <2>1 DEF AssistantTypeOK, Exchange
      <4>2. /\ messages' \in Seq(Message) /\ Len(messages') = Len(messages) + 1
            /\ \A i \in 1..Len(messages) : messages'[i] = messages[i]
        BY <4>1, <3>3, Shown
      <4>3. listening' = {}
        BY <3>1, <3>3 DEF Waiting
      <4>4. Len(messages) > 0 /\ messages[Len(messages)].role = "user"
        BY <3>3 DEF Waiting, Mutations
      <4>5. ASSUME NEW i \in DOMAIN messages', messages'[i].role = "assistant"
            PROVE  i > 1 /\ messages'[i - 1].role = "user"
        <5>1. CASE i = Len(messages')
          BY <5>1, <4>2, <4>4, <1>t
        <5>2. CASE i # Len(messages')
          <6>1. i \in 1..Len(messages)
            BY <5>2, <4>2, <4>5, <1>t
          <6>2. i > 1 /\ messages[i - 1].role = "user"
            BY <6>1, <4>2, <4>5, <1>t DEF AnswersFollowQuestions
          <6> QED
            BY <6>1, <6>2, <4>2, <1>t
        <5> QED
          BY <5>1, <5>2
      <4> QED
        BY <4>3, <4>5 DEF Waiting, AnswersFollowQuestions
    <3> QED
      BY <2>3, <3>2, <3>3 DEF Conclude
  <2> QED
    BY <1>7, <2>2, <2>3 DEF PageSteps
<1>8. CASE PageNext
  BY <1>8, <1>3, <1>4, <1>5, <1>6, <1>7 DEF PageNext
<1>9. CASE InboundNext
  <2>1. PICK w \in Workers : ReceiveWebhook(w) \/ InboundSteps(w) \/ FailExchange(w)
    BY <1>9 DEF InboundNext
  <2>2. w \in Exchanges
    BY DEF Exchanges
  <2>3. UnchangedPage
    BY <2>1, <2>2, EngineTurn DEF InboundSteps, ReceiveWebhook, NextInbound, SendText, DropInbound
  <2> QED
    BY <2>3, <1>0 DEF UnchangedPage
<1>10. CASE UNCHANGED assistantVars
  BY <1>10, <1>0 DEF assistantVars
<1> QED
  BY <1>8, <1>9, <1>10 DEF AssistantNext

-----------------------------------------------------------------------------
(* The replies: each delivery of the batch goes through it once, from its  *)
(* first message to its last, or drops the rest.                           *)

(* The workers that have not replied yet to the i-th message, of the       *)
(* deliveries they process.                                                *)
Yet(i) == {w \in Workers : position[w] \in 1..i}

Covered ==
  /\ deliveries = lostAcks + (IF received THEN 1 ELSE 0)
  /\ \A w \in Workers : Running(w) => position[w] \in DOMAIN Batch
  /\ \A i \in DOMAIN Batch :
       /\ IsFiniteSet(Yet(i))
       /\ replies[Batch[i]] + Cardinality(Yet(i)) <= deliveries

\* Workers are not mutations: the page leaves them alone.
LEMMA PageLeavesWorkers ==
  ASSUME AssistantTypeOK, PageNext
  PROVE  UnchangedInbound /\ \A w \in Workers : exchange'[w] = exchange[w]
<1>w. \A w \in Workers, e \in Mutations : w # e
  BY AssistantAssumption DEF Mutations
<1>e. Mutations \subseteq Exchanges /\ Workers \subseteq Exchanges
  BY DEF Exchanges
<1>1. CASE SendMessage \/ HandleDailyReport \/ HandleSendWhatsAppReport
  <2>1. UnchangedInbound
    BY <1>1 DEF SendMessage, HandleDailyReport, HandleSendWhatsAppReport
  <2>2. PICK e \in Mutations, s \in {"guard", "ask", "failed"} : Begin(e, s)
    BY <1>1 DEF SendMessage, HandleDailyReport, HandleSendWhatsAppReport, Mutations
  <2> QED
    BY <2>1, <2>2, <1>w, <1>e, Begun
<1>2. CASE ClearConversation \/ LeavePage
  BY <1>2 DEF ClearConversation, LeavePage
<1>3. ASSUME NEW e \in Mutations, PageSteps(e) \/ FailExchange(e)
      PROVE  UnchangedInbound /\ \A w \in Workers : exchange'[w] = exchange[w]
  <2>1. CASE ConsumeQuota(e) \/ EngineSteps(e) \/ FailExchange(e)
    BY <2>1, <1>w, <1>e, Counted, EngineTurn
  <2>2. CASE Conclude(e)
    <3>1. End(e) /\ UnchangedInbound
      BY <2>2 DEF Conclude
    <3> QED
      BY <3>1, <1>w, <1>e, Ended
  <2> QED
    BY <1>3, <2>1, <2>2 DEF PageSteps
<1> QED
  BY <1>1, <1>2, <1>3 DEF PageNext

LEMMA BatchIndex ==
  /\ DOMAIN Batch \subseteq Nat \ {0}
  /\ \A i \in Nat : i \in DOMAIN Batch <=> (i # 0 /\ ~(i > Len(Batch)))
  /\ \A i, j \in DOMAIN Batch : Batch[i] = Batch[j] => i = j
  /\ \A i \in DOMAIN Batch : Batch[i] \in BatchMessages
<1>1. DOMAIN Batch = 1..Len(Batch) /\ Len(Batch) \in Nat
  BY AssistantAssumption
<1> QED
  BY <1>1, AssistantAssumption DEF BatchMessages

\* A worker that goes on, or drops its delivery, owes no more than before.
LEMMA OwesLess ==
  ASSUME AssistantTypeOK, Covered, NEW w \in Workers, NEW p \in Nat,
         p = 0 \/ p > position[w], position[w] # 0,
         position' = [position EXCEPT ![w] = p],
         NEW i \in DOMAIN Batch
  PROVE  /\ IsFiniteSet(Yet(i)') /\ Cardinality(Yet(i)') <= Cardinality(Yet(i))
         /\ Cardinality(Yet(i)') \in Nat /\ Cardinality(Yet(i)) \in Nat
<1>1. position[w] \in Nat /\ i \in Nat
  BY BatchIndex DEF AssistantTypeOK
<1>2. Yet(i)' \subseteq Yet(i)
  BY <1>1 DEF Yet, AssistantTypeOK
<1>3. IsFiniteSet(Yet(i))
  BY DEF Covered
<1> QED
  BY <1>2, <1>3, FS_Subset, FS_CardinalityType

LEMMA CoveredInit == AssistantInit => Covered
<1> SUFFICES ASSUME AssistantInit PROVE Covered
  OBVIOUS
<1>1. \A w \in Workers : ~Running(w)
  BY Shapes DEF AssistantInit, Running, Exchanges
<1>2. \A i \in DOMAIN Batch : Yet(i) = {} /\ replies[Batch[i]] = 0
  BY BatchIndex DEF AssistantInit, Yet
<1>3. \A i \in DOMAIN Batch : IsFiniteSet(Yet(i)) /\ Cardinality(Yet(i)) = 0
  BY <1>2, FS_EmptySet
<1>4. ~received /\ deliveries = 0 /\ lostAcks = 0
  BY DEF AssistantInit
<1> QED
  BY <1>1, <1>2, <1>3, <1>4 DEF Covered

LEMMA CoveredNext ==
  AssistantTypeOK /\ Covered /\ [AssistantNext]_assistantVars => Covered'
<1> SUFFICES ASSUME AssistantTypeOK, Covered, [AssistantNext]_assistantVars PROVE Covered'
  OBVIOUS
<1>e. Workers \subseteq Exchanges
  BY DEF Exchanges
<1>t. /\ position \in [Workers -> Nat] /\ replies \in [BatchMessages -> Nat]
      /\ deliveries \in Nat /\ lostAcks \in Nat
      /\ \A i \in DOMAIN Batch : replies[Batch[i]] \in Nat
  BY BatchIndex DEF AssistantTypeOK
<1>0. ASSUME UnchangedInbound, \A w \in Workers : Running(w)' => Running(w) PROVE Covered'
  <2>1. \A i \in DOMAIN Batch : Yet(i)' = Yet(i)
    BY <1>0 DEF UnchangedInbound, Yet
  <2> QED
    BY <1>0, <2>1 DEF UnchangedInbound, Covered
<1>1. CASE PageNext
  BY <1>0, <1>1, PageLeavesWorkers DEF Running
<1>2. CASE UNCHANGED assistantVars
  BY <1>0, <1>2 DEF assistantVars, UnchangedInbound, Running
<1>3. ASSUME NEW w \in Workers, ReceiveWebhook(w) PROVE Covered'
  <2>1. /\ ~Running(w) /\ position[w] = 0 /\ ~received
        /\ position' = [position EXCEPT ![w] = 1]
        /\ deliveries' = deliveries + 1 /\ UNCHANGED <<exchange, replies>>
        /\ \/ received' = TRUE /\ UNCHANGED lostAcks
           \/ received' = FALSE /\ lostAcks' = lostAcks + 1
    BY <1>3 DEF ReceiveWebhook
  <2>2. deliveries' = lostAcks' + (IF received' THEN 1 ELSE 0)
    BY <2>1, <1>t DEF Covered
  <2>3. \A v \in Workers : Running(v)' => position'[v] \in DOMAIN Batch
    BY <2>1, <1>t DEF Running, Covered
  <2>4. ASSUME NEW i \in DOMAIN Batch
        PROVE  IsFiniteSet(Yet(i)') /\ replies'[Batch[i]] + Cardinality(Yet(i)') <= deliveries'
    <3>1. i \in Nat \ {0}
      BY BatchIndex
    <3>2. Yet(i)' = Yet(i) \cup {w} /\ w \notin Yet(i)
      BY <3>1, <2>1, <1>t DEF Yet
    <3>3. IsFiniteSet(Yet(i)) /\ Cardinality(Yet(i)) \in Nat
      BY FS_CardinalityType DEF Covered
    <3>4. IsFiniteSet(Yet(i)') /\ Cardinality(Yet(i)') = Cardinality(Yet(i)) + 1
      BY <3>2, <3>3, FS_AddElement
    <3>5. replies[Batch[i]] + Cardinality(Yet(i)) <= deliveries
      BY DEF Covered
    <3> QED
      BY <3>3, <3>4, <3>5, <2>1, <1>t
  <2> QED
    BY <2>2, <2>3, <2>4 DEF Covered
<1>4. ASSUME NEW w \in Workers, NEW p \in Nat,
             position' = [position EXCEPT ![w] = p], p = 0 \/ p > position[w],
             position[w] # 0, UNCHANGED <<replies, received, deliveries, lostAcks>>,
             ~Running(w)', \A v \in Workers \ {w} : exchange'[v] = exchange[v]
      PROVE  Covered'
  <2>1. \A v \in Workers : Running(v)' => position'[v] \in DOMAIN Batch
    BY <1>4, <1>t DEF Running, Covered
  <2>2. ASSUME NEW i \in DOMAIN Batch
        PROVE  IsFiniteSet(Yet(i)') /\ replies'[Batch[i]] + Cardinality(Yet(i)') <= deliveries'
    <3>1. replies[Batch[i]] + Cardinality(Yet(i)) <= deliveries
      BY DEF Covered
    <3>2. /\ IsFiniteSet(Yet(i)') /\ Cardinality(Yet(i)') <= Cardinality(Yet(i))
          /\ Cardinality(Yet(i)') \in Nat /\ Cardinality(Yet(i)) \in Nat
      BY <1>4, OwesLess
    <3> QED
      BY <3>1, <3>2, <1>4, <1>t
  <2> QED
    BY <1>4, <2>1, <2>2 DEF Covered
<1>5. ASSUME NEW w \in Workers, NextInbound(w) PROVE Covered'
  <2>1. position[w] \in Nat /\ position[w] # 0 /\ ~Running(w)
    BY <1>5, <1>t DEF NextInbound
  <2>2. CASE ~AtEnd(w) /\ Begin(w, "ask") /\ UNCHANGED position
    <3>1. /\ \A v \in Workers \ {w} : exchange'[v] = exchange[v]
          /\ UNCHANGED <<replies, received, deliveries, lostAcks>>
      BY <2>2, <1>5, <1>e, Begun DEF NextInbound
    <3>2. position[w] \in DOMAIN Batch
      BY <2>1, <2>2, BatchIndex DEF AtEnd
    <3>3. \A v \in Workers : Running(v)' => position'[v] \in DOMAIN Batch
      BY <2>2, <3>1, <3>2 DEF Running, Covered
    <3>4. \A i \in DOMAIN Batch : Yet(i)' = Yet(i)
      BY <2>2 DEF Yet
    <3> QED
      BY <3>1, <3>3, <3>4 DEF Covered
  <2>3. CASE /\ UNCHANGED exchange
             /\ \/ position' = [position EXCEPT ![w] = 0]
                \/ position' = [position EXCEPT ![w] = @ + 1]
    <3>1. PICK p \in Nat : position' = [position EXCEPT ![w] = p] /\ (p = 0 \/ p > position[w])
      BY <2>1, <2>3, <1>t
    <3>2. /\ ~Running(w)' /\ \A v \in Workers \ {w} : exchange'[v] = exchange[v]
          /\ UNCHANGED <<replies, received, deliveries, lostAcks>>
      BY <2>1, <2>3, <1>5 DEF NextInbound, Running
    <3> QED
      BY <2>1, <3>1, <3>2, <1>4
  <2> QED
    BY <1>5, <2>2, <2>3 DEF NextInbound
<1>6. ASSUME NEW w \in Workers, SendText(w) PROVE Covered'
  <2>1. /\ exchange[w].at = "answered" /\ End(w)
        /\ replies' = [replies EXCEPT ![Batch[position[w]]] = @ + 1]
        /\ position' = [position EXCEPT ![w] = @ + 1]
        /\ UNCHANGED <<received, deliveries, lostAcks>>
    BY <1>6 DEF SendText
  <2>2. PICK k \in DOMAIN Batch : k = position[w]
    BY <2>1 DEF Covered, Running
  <2>3. k \in Nat \ {0} /\ Batch[k] \in BatchMessages
    BY BatchIndex
  <2>4. exchange'[w].at = "idle" /\ \A v \in Workers \ {w} : exchange'[v] = exchange[v]
    BY <2>1, <1>e, Ended
  <2>5. \A v \in Workers : Running(v)' => position'[v] \in DOMAIN Batch
    BY <2>1, <2>4, <1>t DEF Running, Covered
  <2>6. ASSUME NEW i \in DOMAIN Batch
        PROVE  IsFiniteSet(Yet(i)') /\ replies'[Batch[i]] + Cardinality(Yet(i)') <= deliveries'
    <3>1. replies[Batch[i]] + Cardinality(Yet(i)) <= deliveries
      BY DEF Covered
    <3>2. CASE i = k
      <4>1. Yet(k)' = Yet(k) \ {w} /\ w \in Yet(k)
        BY <2>1, <2>2, <2>3, <1>t DEF Yet
      <4>2. IsFiniteSet(Yet(k)) /\ Cardinality(Yet(k)) \in Nat
        BY FS_CardinalityType DEF Covered
      <4>3. IsFiniteSet(Yet(k)') /\ Cardinality(Yet(k)') = Cardinality(Yet(k)) - 1
        BY <4>1, <4>2, FS_RemoveElement
      <4>4. replies'[Batch[k]] = replies[Batch[k]] + 1
        BY <2>1, <2>2, <2>3, <1>t
      <4> QED
        BY <3>1, <3>2, <4>2, <4>3, <4>4, <2>1, <1>t
    <3>3. CASE i # k
      <4>1. replies'[Batch[i]] = replies[Batch[i]]
        BY <3>3, <2>1, <2>2, <1>t, BatchIndex
      <4>2. /\ position' = [position EXCEPT ![w] = k + 1]
            /\ k + 1 \in Nat /\ k + 1 > position[w]
        BY <2>1, <2>2, <2>3
      <4>3. /\ IsFiniteSet(Yet(i)') /\ Cardinality(Yet(i)') <= Cardinality(Yet(i))
            /\ Cardinality(Yet(i)') \in Nat /\ Cardinality(Yet(i)) \in Nat
        BY <2>2, <2>3, <4>2, OwesLess
      <4> QED
        BY <3>1, <4>1, <4>3, <2>1, <1>t
    <3> QED
      BY <3>2, <3>3
  <2> QED
    BY <2>1, <2>5, <2>6 DEF Covered
<1>7. ASSUME NEW w \in Workers, DropInbound(w) PROVE Covered'
  <2>1. /\ exchange[w].at = "failed" /\ End(w)
        /\ position' = [position EXCEPT ![w] = 0]
        /\ UNCHANGED <<replies, received, deliveries, lostAcks>>
    BY <1>7 DEF DropInbound
  <2>2. position[w] # 0
    BY <2>1, BatchIndex DEF Covered, Running
  <2>3. ~Running(w)' /\ \A v \in Workers \ {w} : exchange'[v] = exchange[v]
    BY <2>1, <1>e, Ended DEF Running
  <2> QED
    BY <2>1, <2>2, <2>3, <1>4
<1>8. ASSUME NEW w \in Workers, EngineSteps(w) \/ FailExchange(w) PROVE Covered'
  <2>1. /\ UnchangedInbound /\ Running(w)
        /\ \A v \in Workers \ {w} : exchange'[v] = exchange[v]
    BY <1>8, <1>e, EngineTurn
  <2> QED
    BY <2>1, <1>0 DEF Running
<1> QED
  BY <1>1, <1>2, <1>3, <1>5, <1>6, <1>7, <1>8 DEF AssistantNext, InboundNext, InboundSteps

LEMMA CoveredReplies ==
  AssistantTypeOK /\ Covered => RepliedOnce
<1> SUFFICES ASSUME AssistantTypeOK, Covered, NEW m \in BatchMessages
             PROVE  replies[m] <= 1 + lostAcks
  BY DEF RepliedOnce
<1>1. PICK i \in DOMAIN Batch : m = Batch[i]
  BY DEF BatchMessages
<1>2. replies[m] + Cardinality(Yet(i)) <= deliveries /\ IsFiniteSet(Yet(i))
  BY <1>1 DEF Covered
<1>3. Cardinality(Yet(i)) \in Nat
  BY <1>2, FS_CardinalityType
<1>4. replies[m] \in Nat /\ lostAcks \in Nat /\ deliveries \in Nat
  BY DEF AssistantTypeOK
<1>5. deliveries <= lostAcks + 1
  BY <1>4 DEF Covered
<1> QED
  BY <1>2, <1>3, <1>4, <1>5

-----------------------------------------------------------------------------
(* Every reachable state of the copilot and of the webhook is well typed,  *)
(* whatever the model answers (copilot-engine.ts, CopilotPage.tsx,         *)
(* whatsapp-webhook.controller.ts).                                        *)
THEOREM AssistantTypeCorrect == AssistantSpec => []AssistantTypeOK
  BY AssistantInits, AssistantTypeNext, PTL DEF AssistantSpec

(* Every answer displayed follows a question, whatever chats, reports,     *)
(* failures and departures interleave (CopilotPage.tsx:66,102-153).        *)
THEOREM AnswersStayBehindQuestions == AssistantSpec => []AnswersFollowQuestions
<1>1. AssistantInit => Waiting /\ AnswersFollowQuestions
  BY DEF AssistantInit, Waiting, AnswersFollowQuestions
<1> QED
  BY <1>1, AssistantInits, AssistantTypeNext, ConversationNext, PTL DEF AssistantSpec

(* A WhatsApp message is answered once, and again only for each            *)
(* acknowledgement Meta did not get, for any batch, any number of workers  *)
(* and any failures (whatsapp-webhook.controller.ts:59-90).                *)
THEOREM RepliesAreCovered == AssistantSpec => []RepliedOnce
  BY AssistantInits, AssistantTypeNext, CoveredInit, CoveredNext, CoveredReplies, PTL
     DEF AssistantSpec

=============================================================================
