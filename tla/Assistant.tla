------------------------------ MODULE Assistant ------------------------------
(***************************************************************************)
(* The AI copilot: the page of the conversation (pages/copilot), the API   *)
(* that serves it (apps/api/src/modules/copilot), the engine that asks the *)
(* model and runs the tools it requests (packages/copilot-engine), and the *)
(* WhatsApp channel (apps/api/src/modules/whatsapp).  The model and the    *)
(* servers of Meta are external: they answer anything, fail, or resend     *)
(* what they think was not received.                                       *)
(***************************************************************************)
EXTENDS Naturals, Sequences, FiniteSets

CONSTANTS
  Tools,            \* COPILOT_TOOLS
  MaxIterations,    \* maxToolIterations
  MaxChat,          \* ArrayMaxSize of ChatRequestDto.messages
  Quota,            \* copilotQuota of the organization
  Batch,            \* the messages of one webhook call, in their order
  Texts,            \* those that are texts
  Workers,          \* webhook calls being processed
  MaxDeliveries,    \* bound of the calls Meta makes for the batch
  MaxShown          \* bound of the conversation displayed

ASSUME AssistantAssumption ==
  /\ Tools # {}
  /\ {MaxIterations, MaxChat, Quota, MaxDeliveries, MaxShown} \subseteq Nat
  /\ Batch \in Seq(Texts \cup {Batch[i] : i \in DOMAIN Batch})
  /\ \A i, j \in DOMAIN Batch : Batch[i] = Batch[j] => i = j
  /\ Workers \cap {"chat", "report", "whatsapp"} = {}

VARIABLES
  messages,    \* the conversation displayed by CopilotPage
  listening,   \* the mutations whose component is still displayed
  used,        \* Subscription.copilotRequestsUsed
  exchange,    \* what each call of the engine is doing
  position,    \* the message of the batch each worker is at
  replies,     \* the replies sent to each message; observes
  received,    \* the last delivery was acknowledged
  deliveries,  \* calls of the webhook
  lostAcks     \* acknowledgements Meta did not get; observes

assistantVars ==
  <<messages, listening, used, exchange, position, replies, received, deliveries, lostAcks>>

-----------------------------------------------------------------------------
(* The three mutations of CopilotPage and the workers of the webhook each  *)
(* run the engine.                                                         *)
Mutations == {"chat", "report", "whatsapp"}
Exchanges == Mutations \cup Workers

BatchMessages == {Batch[i] : i \in DOMAIN Batch}

(* What matters of a message: whether ChatMessageDto accepts its length.   *)
Message == [role: {"user", "assistant"}, long: BOOLEAN]

(* "asked" are the tools the model requested last, "results" those whose   *)
(* result is in the conversation.                                          *)
Exchange ==
  [at: {"idle", "guard", "ask", "tools", "answered", "failed"}, round: Nat,
   asked: SUBSET Tools, results: SUBSET Tools, long: BOOLEAN]

NoExchange ==
  [at |-> "idle", round |-> 0, asked |-> {}, results |-> {}, long |-> FALSE]

Running(e) == exchange[e].at # "idle"

Move(e, step) == exchange' = [exchange EXCEPT ![e].at = step]

Begin(e, step) == exchange' = [exchange EXCEPT ![e] = [NoExchange EXCEPT !.at = step]]

End(e) == exchange' = [exchange EXCEPT ![e] = NoExchange]

UnchangedPage == UNCHANGED <<messages, listening, used>>
UnchangedInbound == UNCHANGED <<position, replies, received, deliveries, lostAcks>>

-----------------------------------------------------------------------------
(* CopilotPage: isBusy keeps the three mutations apart.                    *)
\* Variant: isBusy looks at the chat alone.
BusyChatting == "chat" \in listening

Busy == listening # {}

Show(role, long) == messages' = Append(messages, [role |-> role, long |-> long])

SendMessage ==
  /\ ~Busy /\ ~Running("chat")
  /\ Len(messages) + 1 < MaxShown
  /\ Show("user", FALSE)
  /\ listening' = listening \cup {"chat"}
  /\ Begin("chat", "guard")
  /\ UNCHANGED used /\ UnchangedInbound

HandleDailyReport ==
  /\ ~Busy /\ ~Running("report")
  /\ Len(messages) + 1 < MaxShown
  /\ Show("user", FALSE)
  /\ listening' = listening \cup {"report"}
  /\ Begin("report", "guard")
  /\ UNCHANGED used /\ UnchangedInbound

(* POST /whatsapp/send-daily-report is not under CopilotQuotaGuard.        *)
HandleSendWhatsAppReport ==
  /\ ~Busy /\ ~Running("whatsapp")
  /\ listening' = listening \cup {"whatsapp"}
  /\ Begin("whatsapp", "ask")
  /\ UNCHANGED <<messages, used>> /\ UnchangedInbound

ClearConversation ==
  /\ ~Busy /\ messages # <<>>
  /\ messages' = <<>>
  /\ UNCHANGED <<listening, used, exchange>> /\ UnchangedInbound

(* The page is left: its state is lost, the calls go on.  (Bound: one call  *)
(* that the page has forgotten.)                                           *)
LeavePage ==
  /\ messages # <<>> \/ Busy
  /\ \A e \in Mutations : Running(e) => e \in listening
  /\ messages' = <<>>
  /\ listening' = {}
  /\ UNCHANGED <<used, exchange>> /\ UnchangedInbound

-----------------------------------------------------------------------------
(* The guard counts the call before the body is validated: at most MaxChat *)
(* messages, none too long.                                                *)
ValidChat(e) ==
  e = "chat" => Len(messages) <= MaxChat /\ \A i \in DOMAIN messages : ~messages[i].long

ConsumeQuota(e) ==
  /\ exchange[e].at = "guard"
  /\ IF used < Quota
     THEN used' = used + 1 /\ Move(e, IF ValidChat(e) THEN "ask" ELSE "failed")
     ELSE Move(e, "failed") /\ UNCHANGED used
  /\ UNCHANGED <<messages, listening>> /\ UnchangedInbound

(* CopilotEngine.chat: one turn of its loop.  The model concludes or       *)
(* requests tools, which are run one after the other.                      *)
Answered(e, long) ==
  exchange' = [exchange EXCEPT ![e] = [NoExchange EXCEPT !.at = "answered", !.long = long]]

Requested(e, round, tools) ==
  exchange' = [exchange EXCEPT ![e] =
    [NoExchange EXCEPT !.at = "tools", !.round = round, !.asked = tools]]

\* Variant: the iteration is not counted.
AskModelForever(e) ==
  /\ exchange[e].at = "ask"
  /\ \/ \E long \in BOOLEAN : Answered(e, long)
     \/ \E tools \in SUBSET Tools \ {{}} : Requested(e, exchange[e].round, tools)
  /\ UnchangedPage /\ UnchangedInbound

AskModel(e) ==
  /\ exchange[e].at = "ask"
  /\ IF exchange[e].round = MaxIterations
     THEN Begin(e, "failed")
     ELSE \/ \E long \in BOOLEAN : Answered(e, long)
          \/ \E tools \in SUBSET Tools \ {{}} :
               Requested(e, exchange[e].round + 1, tools)
  /\ UnchangedPage /\ UnchangedInbound

(* The conversation goes back to the model with the results.               *)
ExecuteTool(e) ==
  /\ exchange[e].at = "tools"
  /\ \E t \in exchange[e].asked \ exchange[e].results :
       LET results == exchange[e].results \cup {t} IN
       exchange' = [exchange EXCEPT ![e] =
         [@ EXCEPT !.results = results,
                   !.at = IF results = exchange[e].asked THEN "ask" ELSE "tools"]]
  /\ UnchangedPage /\ UnchangedInbound

(* The model, a tool or the sending of the reply throws.                   *)
FailExchange(e) ==
  /\ exchange[e].at \in {"ask", "tools", "answered"}
  /\ Begin(e, "failed")
  /\ UnchangedPage /\ UnchangedInbound

EngineSteps(e) == AskModel(e) \/ ExecuteTool(e)

(* The answer or the error reaches the page, if it is still there.         *)
Conclude(e) ==
  /\ e \in Mutations
  /\ exchange[e].at \in {"answered", "failed"}
  /\ IF e \in listening /\ exchange[e].at = "answered" /\ e # "whatsapp"
     THEN Show("assistant", exchange[e].long)
     ELSE UNCHANGED messages
  /\ listening' = listening \ {e}
  /\ End(e)
  /\ UNCHANGED used /\ UnchangedInbound

-----------------------------------------------------------------------------
(* receiveWebhook: the call is acknowledged before its messages are        *)
(* processed.                                                              *)
\* Variant: the processing is awaited, and its failure is the answer.
ReceiveWebhookAwaiting(w) ==
  /\ ~Running(w) /\ position[w] = 0
  /\ ~received
  /\ deliveries < MaxDeliveries
  /\ deliveries' = deliveries + 1
  /\ received' \in BOOLEAN
  /\ position' = [position EXCEPT ![w] = 1]
  /\ UnchangedPage /\ UNCHANGED <<exchange, replies, lostAcks>>

ReceiveWebhook(w) ==
  /\ ~Running(w) /\ position[w] = 0
  /\ ~received
  /\ deliveries < MaxDeliveries
  /\ deliveries' = deliveries + 1
  /\ \/ received' = TRUE /\ UNCHANGED lostAcks
     \/ received' = FALSE /\ lostAcks' = lostAcks + 1
  /\ position' = [position EXCEPT ![w] = 1]
  /\ UnchangedPage /\ UNCHANGED <<exchange, replies>>

AtEnd(w) == position[w] > Len(Batch)

(* processInbound: the next text is given to the engine.                   *)
NextInbound(w) ==
  /\ position[w] # 0 /\ ~Running(w)
  /\ IF AtEnd(w)
     THEN position' = [position EXCEPT ![w] = 0] /\ UNCHANGED exchange
     ELSE IF Batch[position[w]] \in Texts
          THEN Begin(w, "ask") /\ UNCHANGED position
          ELSE position' = [position EXCEPT ![w] = @ + 1] /\ UNCHANGED exchange
  /\ UnchangedPage /\ UNCHANGED <<replies, received, deliveries, lostAcks>>

SendText(w) ==
  /\ w \in Workers
  /\ exchange[w].at = "answered"
  /\ replies' = [replies EXCEPT ![Batch[position[w]]] = @ + 1]
  /\ position' = [position EXCEPT ![w] = @ + 1]
  /\ End(w)
  /\ UnchangedPage /\ UNCHANGED <<received, deliveries, lostAcks>>

(* An error is logged: the rest of the batch is dropped.                   *)
DropInbound(w) ==
  /\ w \in Workers
  /\ exchange[w].at = "failed"
  /\ position' = [position EXCEPT ![w] = 0]
  /\ End(w)
  /\ UnchangedPage /\ UNCHANGED <<replies, received, deliveries, lostAcks>>

-----------------------------------------------------------------------------
AssistantInit ==
  /\ messages = <<>>
  /\ listening = {}
  /\ used = 0
  /\ exchange = [e \in Exchanges |-> NoExchange]
  /\ position = [w \in Workers |-> 0]
  /\ replies = [m \in BatchMessages |-> 0]
  /\ received = FALSE
  /\ deliveries = 0
  /\ lostAcks = 0

PageSteps(e) == ConsumeQuota(e) \/ EngineSteps(e) \/ Conclude(e)

(* The page and the webhook share the engine only, which keeps no state.   *)
PageNext ==
  \/ SendMessage \/ HandleDailyReport \/ HandleSendWhatsAppReport
  \/ ClearConversation \/ LeavePage
  \/ \E e \in Mutations : PageSteps(e) \/ FailExchange(e)

InboundSteps(w) == NextInbound(w) \/ EngineSteps(w) \/ SendText(w) \/ DropInbound(w)

InboundNext == \E w \in Workers : ReceiveWebhook(w) \/ InboundSteps(w) \/ FailExchange(w)

AssistantNext == PageNext \/ InboundNext

(* The API runs the calls it has begun; the model and the tools answer or  *)
(* fail.                                                                   *)
AssistantFairness ==
  /\ \A e \in Mutations : WF_assistantVars(PageSteps(e))
  /\ \A w \in Workers : WF_assistantVars(InboundSteps(w))

AssistantSpec == AssistantInit /\ [][AssistantNext]_assistantVars /\ AssistantFairness

-----------------------------------------------------------------------------
AssistantTypeOK ==
  /\ messages \in Seq(Message)
  /\ listening \subseteq Mutations
  /\ used \in Nat
  /\ exchange \in [Exchanges -> Exchange]
  /\ position \in [Workers -> Nat]
  /\ replies \in [BatchMessages -> Nat]
  /\ received \in BOOLEAN
  /\ deliveries \in Nat /\ lostAcks \in Nat

(* The conversation displayed, which is sent again with each question, has *)
(* every answer right after the message it answers, although chats,        *)
(* reports, failures and departures interleave (CopilotPage.tsx:66,102-153). *)
AnswersFollowQuestions ==
  \A i \in DOMAIN messages :
    messages[i].role = "assistant" => i > 1 /\ messages[i - 1].role = "user"

(* A WhatsApp message gets one reply, and another only for each            *)
(* acknowledgement that Meta did not get: a failure of the processing is   *)
(* never answered by a new delivery (whatsapp-webhook.controller.ts:59-64). *)
RepliedOnce == \A m \in BatchMessages : replies[m] <= 1 + lostAcks

(* Whatever the model requests, every call of the engine ends              *)
(* (copilot-engine.ts:82-118).                                             *)
ExchangesEnd == \A e \in Exchanges : []<>~Running(e)

=============================================================================
