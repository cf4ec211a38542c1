----------------------------- MODULE ApprovalsProofs -----------------------------
(***************************************************************************)
(* A tool that needs leave runs only with leave, and a question has one    *)
(* answer, for any number of calls and of clients that answer.             *)
(*                                                                         *)
(* The argument is a token: the key of a question is in pending, or in the *)
(* hands of one client that has taken it, or spent. While it is unspent    *)
(* nobody was told anything; spending it is what tells one answer.         *)
(***************************************************************************)
EXTENDS Approvals, FiniteSetTheorems, TLAPS

(***************************************************************************)
(* The inductive invariant                                                 *)
(***************************************************************************)
\* A key that can be answered was not answered, and is in one place.
Unspent ==
  /\ \A c \in pending : told[c] = {} /\ chan[c] \in {"open", "closed"}
  /\ \A k \in Client : client[k].at = "sends" =>
       LET c == client[k].key IN c \notin pending /\ told[c] = {} /\ chan[c] \in {"open", "closed"}
  /\ \A j, k \in Client :
       client[j].at = "sends" /\ client[k].at = "sends" /\ client[j].key = client[k].key => j = k

Clients == \A k \in Client : client[k].at # "idle" => client[k].key \in Call /\ client[k].say \in Said

Channels ==
  \A c \in Call :
    /\ at[c] \in {"unused", "hook", "park"} => chan[c] = "none"
    /\ chan[c] = "none" => c \notin pending /\ told[c] = {}
    /\ chan[c] \in Said => told[c] = {chan[c]}
    /\ \A u, v \in told[c] : u = v

Results ==
  \A c \in Call :
    /\ result[c] \in Said => told[c] = {result[c]}
    /\ result[c] = "stopped" => at[c] \in {"over", "post", "dropped"}

MayRun(c) == verdict[c] = "auto" \/ (verdict[c] = "ask" /\ told[c] = {"allow"})

Permitted ==
  /\ \A c \in Call : at[c] = "runs" => MayRun(c)
  /\ \A c \in effects \cup loose : MayRun(c) /\ at[c] # "unused"

Listings ==
  /\ \A c \in Call : at[c] = "open" => desk /\ verdict[c] = "ask"
  /\ \A c \in rows : desk /\ verdict[c] = "ask" /\ at[c] # "unused"

IInv == TypeOK /\ Clients /\ Unspent /\ Channels /\ Results /\ Permitted /\ Listings /\ NoGhosts

LEMMA VerdictType ==
  ASSUME NEW kind \in Kind, NEW s \in Settings
  PROVE  Verdict(kind, s) \in {"deny", "auto", "ask", "question"}
<1>1. Approved(s) \in {"deny", "auto", "ask"}
  BY DEF Approved, Settings
<1> QED BY <1>1 DEF Verdict, Kind, Settings

LEMMA CancelStep ==
  ASSUME IInv, Cancel
  PROVE  IInv'
<1> USE DEF book, calls, Goes, Ends, Sent, Tell, MayRun, Guarded, Asking, Onward, Idle, Said
<1>1. TypeOK'
  BY DEF IInv, Cancel, TypeOK, Channels
<1>2. Clients'
  BY DEF IInv, Cancel, TypeOK, Clients
<1>3. Unspent'
  BY DEF IInv, Cancel, TypeOK, Clients, Unspent, Channels
<1>4. Channels'
  BY DEF IInv, Cancel, TypeOK, Clients, Unspent, Channels
<1>5. Results'
  BY DEF IInv, Cancel, TypeOK, Clients, Unspent, Channels, Results
<1>6. Permitted'
  BY DEF IInv, Cancel, TypeOK, Clients, Unspent, Results, Permitted
<1>7. Listings'
  BY DEF IInv, Cancel, TypeOK, Listings
<1>8. NoGhosts'
  BY DEF IInv, Cancel, TypeOK, Channels, Results, Listings, NoGhosts
<1> QED BY <1>1, <1>2, <1>3, <1>4, <1>5, <1>6, <1>7, <1>8 DEF IInv

LEMMA BeginStep ==
  ASSUME IInv, NEW c \in Call, Begin(c)
  PROVE  IInv'
<1> USE DEF book, calls, Goes, Ends, Sent, Tell, MayRun, Guarded, Asking, Onward, Idle, Said
<1>1. TypeOK'
  <2>1. verdict' \in [Call -> {None, "deny", "auto", "ask", "question"}]
    BY VerdictType DEF IInv, Begin, TypeOK
  <2> QED BY <2>1 DEF IInv, Begin, TypeOK
<1>2. Clients'
  BY DEF IInv, Begin, TypeOK, Clients
<1>3. Unspent'
  BY DEF IInv, Begin, TypeOK, Clients, Unspent, Channels
<1>4. Channels'
  BY DEF IInv, Begin, TypeOK, Clients, Unspent, Channels
<1>5. Results'
  BY DEF IInv, Begin, TypeOK, Clients, Unspent, Channels, Results
<1>6. Permitted'
  BY DEF IInv, Begin, TypeOK, Clients, Unspent, Results, Permitted
<1>7. Listings'
  BY DEF IInv, Begin, TypeOK, Listings
<1>8. NoGhosts'
  BY DEF IInv, Begin, TypeOK, Channels, Results, Listings, NoGhosts
<1> QED BY <1>1, <1>2, <1>3, <1>4, <1>5, <1>6, <1>7, <1>8 DEF IInv

LEMMA HookBlocksStep ==
  ASSUME IInv, NEW c \in Call, HookBlocks(c)
  PROVE  IInv'
<1> USE DEF book, calls, Goes, Ends, Sent, Tell, MayRun, Guarded, Asking, Onward, Idle, Said
<1>1. TypeOK'
  BY DEF IInv, HookBlocks, TypeOK, Channels
<1>2. Clients'
  BY DEF IInv, HookBlocks, TypeOK, Clients
<1>3. Unspent'
  BY DEF IInv, HookBlocks, TypeOK, Clients, Unspent, Channels
<1>4. Channels'
  BY DEF IInv, HookBlocks, TypeOK, Clients, Unspent, Channels
<1>5. Results'
  BY DEF IInv, HookBlocks, TypeOK, Clients, Unspent, Channels, Results
<1>6. Permitted'
  BY DEF IInv, HookBlocks, TypeOK, Clients, Unspent, Results, Permitted
<1>7. Listings'
  BY DEF IInv, HookBlocks, TypeOK, Listings
<1>8. NoGhosts'
  BY DEF IInv, HookBlocks, TypeOK, Channels, Results, Listings, NoGhosts
<1> QED BY <1>1, <1>2, <1>3, <1>4, <1>5, <1>6, <1>7, <1>8 DEF IInv

LEMMA HookPassesStep ==
  ASSUME IInv, NEW c \in Call, HookPasses(c)
  PROVE  IInv'
<1> USE DEF book, calls, Goes, Ends, Sent, Tell, MayRun, Guarded, Asking, Onward, Idle, Said
<1>1. TypeOK'
  BY DEF IInv, HookPasses, TypeOK, Channels
<1>2. Clients'
  BY DEF IInv, HookPasses, TypeOK, Clients
<1>3. Unspent'
  BY DEF IInv, HookPasses, TypeOK, Clients, Unspent, Channels
<1>4. Channels'
  BY DEF IInv, HookPasses, TypeOK, Clients, Unspent, Channels
<1>5. Results'
  BY DEF IInv, HookPasses, TypeOK, Clients, Unspent, Channels, Results
<1>6. Permitted'
  BY DEF IInv, HookPasses, TypeOK, Clients, Unspent, Results, Permitted
<1>7. Listings'
  BY DEF IInv, HookPasses, TypeOK, Listings
<1>8. NoGhosts'
  BY DEF IInv, HookPasses, TypeOK, Channels, Results, Listings, NoGhosts
<1> QED BY <1>1, <1>2, <1>3, <1>4, <1>5, <1>6, <1>7, <1>8 DEF IInv

LEMMA ParkStep ==
  ASSUME IInv, NEW c \in Call, Park(c)
  PROVE  IInv'
<1> USE DEF book, calls, Goes, Ends, Sent, Tell, MayRun, Guarded, Asking, Onward, Idle, Said
<1>1. TypeOK'
  BY DEF IInv, Park, TypeOK, Channels
<1>2. Clients'
  BY DEF IInv, Park, TypeOK, Clients
<1>3. Unspent'
  BY DEF IInv, Park, TypeOK, Clients, Unspent, Channels
<1>4. Channels'
  BY DEF IInv, Park, TypeOK, Clients, Unspent, Channels
<1>5. Results'
  BY DEF IInv, Park, TypeOK, Clients, Unspent, Channels, Results
<1>6. Permitted'
  BY DEF IInv, Park, TypeOK, Clients, Unspent, Results, Permitted
<1>7. Listings'
  BY DEF IInv, Park, TypeOK, Listings
<1>8. NoGhosts'
  BY DEF IInv, Park, TypeOK, Channels, Results, Listings, NoGhosts
<1> QED BY <1>1, <1>2, <1>3, <1>4, <1>5, <1>6, <1>7, <1>8 DEF IInv

LEMMA OpenRowStep ==
  ASSUME IInv, NEW c \in Call, OpenRow(c)
  PROVE  IInv'
<1> USE DEF book, calls, Goes, Ends, Sent, Tell, MayRun, Guarded, Asking, Onward, Idle, Said
<1>1. TypeOK'
  BY DEF IInv, OpenRow, TypeOK, Channels
<1>2. Clients'
  BY DEF IInv, OpenRow, TypeOK, Clients
<1>3. Unspent'
  BY DEF IInv, OpenRow, TypeOK, Clients, Unspent, Channels
<1>4. Channels'
  BY DEF IInv, OpenRow, TypeOK, Clients, Unspent, Channels
<1>5. Results'
  BY DEF IInv, OpenRow, TypeOK, Clients, Unspent, Channels, Results
<1>6. Permitted'
  BY DEF IInv, OpenRow, TypeOK, Clients, Unspent, Results, Permitted
<1>7. Listings'
  BY DEF IInv, OpenRow, TypeOK, Listings
<1>8. NoGhosts'
  BY DEF IInv, OpenRow, TypeOK, Channels, Results, Listings, NoGhosts
<1> QED BY <1>1, <1>2, <1>3, <1>4, <1>5, <1>6, <1>7, <1>8 DEF IInv

LEMMA ReceiveStep ==
  ASSUME IInv, NEW c \in Call, Receive(c)
  PROVE  IInv'
<1> USE DEF book, calls, Goes, Ends, Sent, Tell, MayRun, Guarded, Asking, Onward, Idle, Said
<1>1. TypeOK'
  BY DEF IInv, Receive, TypeOK, Channels
<1>2. Clients'
  BY DEF IInv, Receive, TypeOK, Clients
<1>3. Unspent'
  BY DEF IInv, Receive, TypeOK, Clients, Unspent, Channels
<1>4. Channels'
  BY DEF IInv, Receive, TypeOK, Clients, Unspent, Channels
<1>5. Results'
  BY DEF IInv, Receive, TypeOK, Clients, Unspent, Channels, Results
<1>6. Permitted'
  BY DEF IInv, Receive, TypeOK, Clients, Unspent, Results, Permitted
<1>7. Listings'
  BY DEF IInv, Receive, TypeOK, Listings
<1>8. NoGhosts'
  BY DEF IInv, Receive, TypeOK, Channels, Results, Listings, NoGhosts
<1> QED BY <1>1, <1>2, <1>3, <1>4, <1>5, <1>6, <1>7, <1>8 DEF IInv

LEMMA ElapseStep ==
  ASSUME IInv, NEW c \in Call, Elapse(c)
  PROVE  IInv'
<1> USE DEF book, calls, Goes, Ends, Sent, Tell, MayRun, Guarded, Asking, Onward, Idle, Said
<1>1. TypeOK'
  BY DEF IInv, Elapse, TypeOK, Channels
<1>2. Clients'
  BY DEF IInv, Elapse, TypeOK, Clients
<1>3. Unspent'
  BY DEF IInv, Elapse, TypeOK, Clients, Unspent, Channels
<1>4. Channels'
  BY DEF IInv, Elapse, TypeOK, Clients, Unspent, Channels
<1>5. Results'
  BY DEF IInv, Elapse, TypeOK, Clients, Unspent, Channels, Results
<1>6. Permitted'
  BY DEF IInv, Elapse, TypeOK, Clients, Unspent, Results, Permitted
<1>7. Listings'
  BY DEF IInv, Elapse, TypeOK, Listings
<1>8. NoGhosts'
  BY DEF IInv, Elapse, TypeOK, Channels, Results, Listings, NoGhosts
<1> QED BY <1>1, <1>2, <1>3, <1>4, <1>5, <1>6, <1>7, <1>8 DEF IInv

LEMMA ExpireStep ==
  ASSUME IInv, NEW c \in Call, Expire(c)
  PROVE  IInv'
<1> USE DEF book, calls, Goes, Ends, Sent, Tell, MayRun, Guarded, Asking, Onward, Idle, Said
<1>1. TypeOK'
  BY DEF IInv, Expire, TypeOK, Channels
<1>2. Clients'
  BY DEF IInv, Expire, TypeOK, Clients
<1>3. Unspent'
  BY DEF IInv, Expire, TypeOK, Clients, Unspent, Channels
<1>4. Channels'
  BY DEF IInv, Expire, TypeOK, Clients, Unspent, Channels
<1>5. Results'
  BY DEF IInv, Expire, TypeOK, Clients, Unspent, Channels, Results
<1>6. Permitted'
  BY DEF IInv, Expire, TypeOK, Clients, Unspent, Results, Permitted
<1>7. Listings'
  BY DEF IInv, Expire, TypeOK, Listings
<1>8. NoGhosts'
  BY DEF IInv, Expire, TypeOK, Channels, Results, Listings, NoGhosts
<1> QED BY <1>1, <1>2, <1>3, <1>4, <1>5, <1>6, <1>7, <1>8 DEF IInv

LEMMA LeaveStep ==
  ASSUME IInv, NEW c \in Call, Leave(c)
  PROVE  IInv'
<1> USE DEF book, calls, Goes, Ends, Sent, Tell, MayRun, Guarded, Asking, Onward, Idle, Said
<1>1. TypeOK'
  BY DEF IInv, Leave, TypeOK, Channels
<1>2. Clients'
  BY DEF IInv, Leave, TypeOK, Clients
<1>3. Unspent'
  BY DEF IInv, Leave, TypeOK, Clients, Unspent, Channels
<1>4. Channels'
  BY DEF IInv, Leave, TypeOK, Clients, Unspent, Channels
<1>5. Results'
  BY DEF IInv, Leave, TypeOK, Clients, Unspent, Channels, Results
<1>6. Permitted'
  BY DEF IInv, Leave, TypeOK, Clients, Unspent, Results, Permitted
<1>7. Listings'
  BY DEF IInv, Leave, TypeOK, Listings
<1>8. NoGhosts'
  BY DEF IInv, Leave, TypeOK, Channels, Results, Listings, NoGhosts
<1> QED BY <1>1, <1>2, <1>3, <1>4, <1>5, <1>6, <1>7, <1>8 DEF IInv

LEMMA CloseRowStep ==
  ASSUME IInv, NEW c \in Call, CloseRow(c)
  PROVE  IInv'
<1> USE DEF book, calls, Goes, Ends, Sent, Tell, MayRun, Guarded, Asking, Onward, Idle, Said
<1>1. TypeOK'
  BY DEF IInv, CloseRow, TypeOK, Channels
<1>2. Clients'
  BY DEF IInv, CloseRow, TypeOK, Clients
<1>3. Unspent'
  BY DEF IInv, CloseRow, TypeOK, Clients, Unspent, Channels
<1>4. Channels'
  BY DEF IInv, CloseRow, TypeOK, Clients, Unspent, Channels
<1>5. Results'
  BY DEF IInv, CloseRow, TypeOK, Clients, Unspent, Channels, Results
<1>6. Permitted'
  BY DEF IInv, CloseRow, TypeOK, Clients, Unspent, Results, Permitted
<1>7. Listings'
  BY DEF IInv, CloseRow, TypeOK, Listings
<1>8. NoGhosts'
  BY DEF IInv, CloseRow, TypeOK, Channels, Results, Listings, NoGhosts
<1> QED BY <1>1, <1>2, <1>3, <1>4, <1>5, <1>6, <1>7, <1>8 DEF IInv

LEMMA ExecuteStep ==
  ASSUME IInv, NEW c \in Call, Execute(c)
  PROVE  IInv'
<1> USE DEF book, calls, Goes, Ends, Sent, Tell, MayRun, Guarded, Asking, Onward, Idle, Said
<1>1. TypeOK'
  BY DEF IInv, Execute, TypeOK, Channels
<1>2. Clients'
  BY DEF IInv, Execute, TypeOK, Clients
<1>3. Unspent'
  BY DEF IInv, Execute, TypeOK, Clients, Unspent, Channels
<1>4. Channels'
  BY DEF IInv, Execute, TypeOK, Clients, Unspent, Channels
<1>5. Results'
  BY DEF IInv, Execute, TypeOK, Clients, Unspent, Channels, Results
<1>6. Permitted'
  BY DEF IInv, Execute, TypeOK, Clients, Unspent, Results, Permitted
<1>7. Listings'
  BY DEF IInv, Execute, TypeOK, Listings
<1>8. NoGhosts'
  BY DEF IInv, Execute, TypeOK, Channels, Results, Listings, NoGhosts
<1> QED BY <1>1, <1>2, <1>3, <1>4, <1>5, <1>6, <1>7, <1>8 DEF IInv

LEMMA PostHooksStep ==
  ASSUME IInv, NEW c \in Call, PostHooks(c)
  PROVE  IInv'
<1> USE DEF book, calls, Goes, Ends, Sent, Tell, MayRun, Guarded, Asking, Onward, Idle, Said
<1>1. TypeOK'
  BY DEF IInv, PostHooks, TypeOK, Channels
<1>2. Clients'
  BY DEF IInv, PostHooks, TypeOK, Clients
<1>3. Unspent'
  BY DEF IInv, PostHooks, TypeOK, Clients, Unspent, Channels
<1>4. Channels'
  BY DEF IInv, PostHooks, TypeOK, Clients, Unspent, Channels
<1>5. Results'
  BY DEF IInv, PostHooks, TypeOK, Clients, Unspent, Channels, Results
<1>6. Permitted'
  BY DEF IInv, PostHooks, TypeOK, Clients, Unspent, Results, Permitted
<1>7. Listings'
  BY DEF IInv, PostHooks, TypeOK, Listings
<1>8. NoGhosts'
  BY DEF IInv, PostHooks, TypeOK, Channels, Results, Listings, NoGhosts
<1> QED BY <1>1, <1>2, <1>3, <1>4, <1>5, <1>6, <1>7, <1>8 DEF IInv

LEMMA StopStep ==
  ASSUME IInv, NEW c \in Call, Stop(c)
  PROVE  IInv'
<1> USE DEF book, calls, Goes, Ends, Sent, Tell, MayRun, Guarded, Asking, Onward, Idle, Said
<1>1. TypeOK'
  BY DEF IInv, Stop, TypeOK, Channels
<1>2. Clients'
  BY DEF IInv, Stop, TypeOK, Clients
<1>3. Unspent'
  BY DEF IInv, Stop, TypeOK, Clients, Unspent, Channels
<1>4. Channels'
  BY DEF IInv, Stop, TypeOK, Clients, Unspent, Channels
<1>5. Results'
  BY DEF IInv, Stop, TypeOK, Clients, Unspent, Channels, Results
<1>6. Permitted'
  BY DEF IInv, Stop, TypeOK, Clients, Unspent, Results, Permitted
<1>7. Listings'
  BY DEF IInv, Stop, TypeOK, Listings
<1>8. NoGhosts'
  BY DEF IInv, Stop, TypeOK, Channels, Results, Listings, NoGhosts
<1> QED BY <1>1, <1>2, <1>3, <1>4, <1>5, <1>6, <1>7, <1>8 DEF IInv

LEMMA DropSlotStep ==
  ASSUME IInv, NEW c \in Call, DropSlot(c)
  PROVE  IInv'
<1> USE DEF book, calls, Goes, Ends, Sent, Tell, MayRun, Guarded, Asking, Onward, Idle, Said
<1>1. TypeOK'
  BY DEF IInv, DropSlot, TypeOK, Channels
<1>2. Clients'
  BY DEF IInv, DropSlot, TypeOK, Clients
<1>3. Unspent'
  BY DEF IInv, DropSlot, TypeOK, Clients, Unspent, Channels
<1>4. Channels'
  BY DEF IInv, DropSlot, TypeOK, Clients, Unspent, Channels
<1>5. Results'
  BY DEF IInv, DropSlot, TypeOK, Clients, Unspent, Channels, Results
<1>6. Permitted'
  BY DEF IInv, DropSlot, TypeOK, Clients, Unspent, Results, Permitted
<1>7. Listings'
  BY DEF IInv, DropSlot, TypeOK, Listings
<1>8. NoGhosts'
  BY DEF IInv, DropSlot, TypeOK, Channels, Results, Listings, NoGhosts
<1> QED BY <1>1, <1>2, <1>3, <1>4, <1>5, <1>6, <1>7, <1>8 DEF IInv

LEMMA LooseWorkStep ==
  ASSUME IInv, NEW c \in Call, LooseWork(c)
  PROVE  IInv'
<1> USE DEF book, calls, Goes, Ends, Sent, Tell, MayRun, Guarded, Asking, Onward, Idle, Said
<1>1. TypeOK'
  BY DEF IInv, LooseWork, TypeOK, Channels
<1>2. Clients'
  BY DEF IInv, LooseWork, TypeOK, Clients
<1>3. Unspent'
  BY DEF IInv, LooseWork, TypeOK, Clients, Unspent, Channels
<1>4. Channels'
  BY DEF IInv, LooseWork, TypeOK, Clients, Unspent, Channels
<1>5. Results'
  BY DEF IInv, LooseWork, TypeOK, Clients, Unspent, Channels, Results
<1>6. Permitted'
  BY DEF IInv, LooseWork, TypeOK, Clients, Unspent, Results, Permitted
<1>7. Listings'
  BY DEF IInv, LooseWork, TypeOK, Listings
<1>8. NoGhosts'
  BY DEF IInv, LooseWork, TypeOK, Channels, Results, Listings, NoGhosts
<1> QED BY <1>1, <1>2, <1>3, <1>4, <1>5, <1>6, <1>7, <1>8 DEF IInv

LEMMA AnswerHereStep ==
  ASSUME IInv, NEW c \in Call, NEW v \in Said, AnswerHere(c, v)
  PROVE  IInv'
<1> USE DEF book, calls, Goes, Ends, Sent, Tell, MayRun, Guarded, Asking, Onward, Idle, Said
<1>1. TypeOK'
  BY DEF IInv, AnswerHere, TypeOK, Channels
<1>2. Clients'
  BY DEF IInv, AnswerHere, TypeOK, Clients
<1>3. Unspent'
  BY DEF IInv, AnswerHere, TypeOK, Clients, Unspent, Channels
<1>4. Channels'
  BY DEF IInv, AnswerHere, TypeOK, Clients, Unspent, Channels
<1>5. Results'
  BY DEF IInv, AnswerHere, TypeOK, Clients, Unspent, Channels, Results
<1>6. Permitted'
  <2>1. told[c] = {} /\ told' = [told EXCEPT ![c] = {v}] /\ told \in [Call -> SUBSET Said]
    BY DEF IInv, AnswerHere, TypeOK, Unspent
  <2>2. \A d \in Call : MayRun(d) => MayRun(d)'
    BY <2>1 DEF AnswerHere
  <2> HIDE DEF MayRun
  <2> QED BY <2>2 DEF IInv, AnswerHere, TypeOK, Permitted
<1>7. Listings'
  BY DEF IInv, AnswerHere, TypeOK, Listings
<1>8. NoGhosts'
  BY DEF IInv, AnswerHere, TypeOK, Channels, Results, Listings, NoGhosts
<1> QED BY <1>1, <1>2, <1>3, <1>4, <1>5, <1>6, <1>7, <1>8 DEF IInv

LEMMA TakeStep ==
  ASSUME IInv, NEW k \in Client, NEW c \in Call, NEW v \in Said, Take(k, c, v)
  PROVE  IInv'
<1> USE DEF book, calls, Goes, Ends, Sent, Tell, MayRun, Guarded, Asking, Onward, Idle, Said
<1>1. TypeOK'
  BY DEF IInv, Take, TypeOK, Channels
<1>2. Clients'
  BY DEF IInv, Take, TypeOK, Clients
<1>3. Unspent'
  BY DEF IInv, Take, TypeOK, Clients, Unspent, Channels
<1>4. Channels'
  BY DEF IInv, Take, TypeOK, Clients, Unspent, Channels
<1>5. Results'
  BY DEF IInv, Take, TypeOK, Clients, Unspent, Channels, Results
<1>6. Permitted'
  BY DEF IInv, Take, TypeOK, Clients, Unspent, Results, Permitted
<1>7. Listings'
  BY DEF IInv, Take, TypeOK, Listings
<1>8. NoGhosts'
  BY DEF IInv, Take, TypeOK, Channels, Results, Listings, NoGhosts
<1> QED BY <1>1, <1>2, <1>3, <1>4, <1>5, <1>6, <1>7, <1>8 DEF IInv

LEMMA FindStep ==
  ASSUME IInv, NEW k \in Client, NEW c \in Call, NEW v \in Said, Find(k, c, v)
  PROVE  IInv'
<1> USE DEF book, calls, Goes, Ends, Sent, Tell, MayRun, Guarded, Asking, Onward, Idle, Said
<1>1. TypeOK'
  BY DEF IInv, Find, TypeOK, Channels
<1>2. Clients'
  BY DEF IInv, Find, TypeOK, Clients
<1>3. Unspent'
  BY DEF IInv, Find, TypeOK, Clients, Unspent, Channels
<1>4. Channels'
  BY DEF IInv, Find, TypeOK, Clients, Unspent, Channels
<1>5. Results'
  BY DEF IInv, Find, TypeOK, Clients, Unspent, Channels, Results
<1>6. Permitted'
  BY DEF IInv, Find, TypeOK, Clients, Unspent, Results, Permitted
<1>7. Listings'
  BY DEF IInv, Find, TypeOK, Listings
<1>8. NoGhosts'
  BY DEF IInv, Find, TypeOK, Channels, Results, Listings, NoGhosts
<1> QED BY <1>1, <1>2, <1>3, <1>4, <1>5, <1>6, <1>7, <1>8 DEF IInv

LEMMA TakeFoundStep ==
  ASSUME IInv, NEW k \in Client, TakeFound(k)
  PROVE  IInv'
<1> USE DEF book, calls, Goes, Ends, Sent, Tell, MayRun, Guarded, Asking, Onward, Idle, Said
<1>1. TypeOK'
  BY DEF IInv, TakeFound, TypeOK, Channels
<1>2. Clients'
  BY DEF IInv, TakeFound, TypeOK, Clients
<1>3. Unspent'
  <2>1. client[k].at = "found" /\ client[k].key \in Call /\ UNCHANGED <<chan, told>>
    BY DEF IInv, TakeFound, Clients
  <2>2. CASE client[k].key \in pending
    <3>1. pending' = pending \ {client[k].key} /\ client' = [client EXCEPT ![k].at = "sends"]
      BY <2>2 DEF TakeFound
    <3> QED BY <2>1, <2>2, <3>1 DEF IInv, TypeOK, Clients, Unspent
  <2>3. CASE client[k].key \notin pending
    <3>1. pending' = pending /\ client' = [client EXCEPT ![k] = Idle]
      BY <2>3 DEF TakeFound
    <3>2. client'[k] = Idle /\ \A j \in Client \ {k} : client'[j] = client[j]
      BY <3>1 DEF IInv, TypeOK
    <3>3. \A j \in Client : client'[j].at = "sends" => client'[j] = client[j]
      BY <3>2
    <3>4. \A c \in pending' : told'[c] = {} /\ chan'[c] \in {"open", "closed"}
      BY <2>1, <3>1 DEF IInv, Unspent
    <3>5. \A j \in Client : client'[j].at = "sends" =>
            /\ client'[j].key \notin pending' /\ told'[client'[j].key] = {}
            /\ chan'[client'[j].key] \in {"open", "closed"}
      <4> SUFFICES ASSUME NEW j \in Client, client'[j].at = "sends"
                   PROVE  /\ client'[j].key \notin pending' /\ told'[client'[j].key] = {}
                          /\ chan'[client'[j].key] \in {"open", "closed"}
        OBVIOUS
      <4>1. client'[j] = client[j]
        BY <3>3
      <4>2. /\ client[j].key \notin pending /\ told[client[j].key] = {}
            /\ chan[client[j].key] \in {"open", "closed"}
        BY <4>1 DEF IInv, Unspent
      <4> QED BY <2>1, <3>1, <4>1, <4>2
    <3>6. \A i, j \in Client :
            client'[i].at = "sends" /\ client'[j].at = "sends" /\ client'[i].key = client'[j].key => i = j
      <4> SUFFICES ASSUME NEW i \in Client, NEW j \in Client, client'[i].at = "sends",
                          client'[j].at = "sends", client'[i].key = client'[j].key
                   PROVE  i = j
        OBVIOUS
      <4>1. client'[i] = client[i] /\ client'[j] = client[j]
        BY <3>3
      <4> QED BY <4>1 DEF IInv, Unspent
    <3> QED BY <3>4, <3>5, <3>6 DEF Unspent
  <2> QED BY <2>2, <2>3
<1>4. Channels'
  BY DEF IInv, TakeFound, TypeOK, Clients, Unspent, Channels
<1>5. Results'
  BY DEF IInv, TakeFound, TypeOK, Clients, Unspent, Channels, Results
<1>6. Permitted'
  BY DEF IInv, TakeFound, TypeOK, Clients, Unspent, Results, Permitted
<1>7. Listings'
  BY DEF IInv, TakeFound, TypeOK, Listings
<1>8. NoGhosts'
  BY DEF IInv, TakeFound, TypeOK, Channels, Results, Listings, NoGhosts
<1> QED BY <1>1, <1>2, <1>3, <1>4, <1>5, <1>6, <1>7, <1>8 DEF IInv

\* The key in hand is unspent: the answer is the first, if the call still waits.
LEMMA SendIs ==
  ASSUME IInv, NEW k \in Client, Send(k)
  PROVE  /\ client[k].key \in Call /\ client[k].say \in Said
         /\ client[k].key \notin pending /\ told[client[k].key] = {}
         /\ \/ /\ chan[client[k].key] = "open"
               /\ chan' = [chan EXCEPT ![client[k].key] = client[k].say]
               /\ told' = [told EXCEPT ![client[k].key] = {client[k].say}]
            \/ chan[client[k].key] = "closed" /\ chan' = chan /\ told' = told
         /\ \/ client' = [client EXCEPT ![k] = Idle]
            \/ client' = [client EXCEPT ![k].at = "closes"]
         /\ UNCHANGED <<calls, pending, rows>>
<1>1. client[k].at = "sends" /\ client[k].key \in Call /\ client[k].say \in Said
  BY DEF IInv, Send, Clients
<1>2. /\ client[k].key \notin pending /\ told[client[k].key] = {}
      /\ chan[client[k].key] \in {"open", "closed"}
  BY <1>1 DEF IInv, Unspent
<1>3. told \in [Call -> SUBSET Said] /\ chan \in [Call -> {"none", "open", "closed"} \cup Said]
  BY DEF IInv, TypeOK
<1>4. CASE chan[client[k].key] = "open"
  BY <1>1, <1>2, <1>3, <1>4 DEF Send, Sent
<1>5. CASE chan[client[k].key] = "closed"
  BY <1>1, <1>2, <1>5 DEF Send, Sent
<1> QED BY <1>2, <1>4, <1>5

LEMMA SendStep ==
  ASSUME IInv, NEW k \in Client, Send(k)
  PROVE  IInv'
<1> USE DEF book, calls, Goes, Ends, Sent, Tell, MayRun, Guarded, Asking, Onward, Idle, Said
<1>1. TypeOK'
  BY SendIs DEF IInv, TypeOK, Channels
<1>2. Clients'
  BY SendIs DEF IInv, TypeOK, Clients
<1>3. Unspent'
  <2>1. client[k].at = "sends"
    BY DEF Send
  <2>2. \A j \in Client : client'[j].at = "sends" => j # k /\ client'[j] = client[j]
    BY SendIs, <2>1 DEF IInv, TypeOK
  <2>3. \A j \in Client \ {k} : client[j].at = "sends" => client[j].key # client[k].key
    BY <2>1 DEF IInv, Unspent
  <2>4. \A d \in Call : d # client[k].key => told'[d] = told[d] /\ chan'[d] = chan[d]
    BY SendIs DEF IInv, TypeOK
  <2>5. /\ \A c \in pending' : told'[c] = {} /\ chan'[c] \in {"open", "closed"}
        /\ \A j, l \in Client : client'[j].at = "sends" /\ client'[l].at = "sends"
             /\ client'[j].key = client'[l].key => j = l
    BY SendIs, <2>2, <2>4 DEF IInv, TypeOK, Unspent
  <2>6. ASSUME NEW j \in Client, client'[j].at = "sends"
        PROVE  /\ client'[j].key \notin pending' /\ told'[client'[j].key] = {}
               /\ chan'[client'[j].key] \in {"open", "closed"}
    <3>1. j # k /\ client'[j] = client[j] /\ client[j].at = "sends"
      BY <2>2, <2>6
    <3>2. client[j].key \in Call /\ client[j].key # client[k].key
      BY <2>3, <3>1 DEF IInv, Clients
    <3>3. /\ client[j].key \notin pending /\ told[client[j].key] = {}
          /\ chan[client[j].key] \in {"open", "closed"}
      BY <3>1 DEF IInv, Unspent
    <3>4. pending' = pending
      BY SendIs
    <3> QED BY <2>4, <3>1, <3>2, <3>3, <3>4
  <2> QED BY <2>5, <2>6 DEF Unspent
<1>4. Channels'
  BY SendIs DEF IInv, TypeOK, Clients, Unspent, Channels
<1>5. Results'
  <2>1. \A d \in Call : told[d] # {} => told'[d] = told[d]
    BY SendIs DEF IInv, TypeOK
  <2>2. UNCHANGED <<result, at>>
    BY SendIs
  <2> QED BY <2>1, <2>2 DEF IInv, TypeOK, Results
<1>6. Permitted'
  <2>1. \A d \in Call : MayRun(d) => MayRun(d)'
    BY SendIs DEF IInv, TypeOK
  <2>2. UNCHANGED <<at, effects, loose>>
    BY SendIs
  <2> HIDE DEF MayRun
  <2> QED BY <2>1, <2>2 DEF IInv, TypeOK, Permitted
<1>7. Listings'
  BY DEF IInv, Send, TypeOK, Listings
<1>8. NoGhosts'
  BY DEF IInv, Send, TypeOK, Channels, Results, Listings, NoGhosts
<1> QED BY <1>1, <1>2, <1>3, <1>4, <1>5, <1>6, <1>7, <1>8 DEF IInv

LEMMA CloseAnsweredStep ==
  ASSUME IInv, NEW k \in Client, CloseAnswered(k)
  PROVE  IInv'
<1> USE DEF book, calls, Goes, Ends, Sent, Tell, MayRun, Guarded, Asking, Onward, Idle, Said
<1>1. TypeOK'
  BY DEF IInv, CloseAnswered, TypeOK, Channels
<1>2. Clients'
  BY DEF IInv, CloseAnswered, TypeOK, Clients
<1>3. Unspent'
  BY DEF IInv, CloseAnswered, TypeOK, Clients, Unspent, Channels
<1>4. Channels'
  BY DEF IInv, CloseAnswered, TypeOK, Clients, Unspent, Channels
<1>5. Results'
  BY DEF IInv, CloseAnswered, TypeOK, Clients, Unspent, Channels, Results
<1>6. Permitted'
  BY DEF IInv, CloseAnswered, TypeOK, Clients, Unspent, Results, Permitted
<1>7. Listings'
  BY DEF IInv, CloseAnswered, TypeOK, Listings
<1>8. NoGhosts'
  BY DEF IInv, CloseAnswered, TypeOK, Channels, Results, Listings, NoGhosts
<1> QED BY <1>1, <1>2, <1>3, <1>4, <1>5, <1>6, <1>7, <1>8 DEF IInv

(***************************************************************************)
(* Theorems                                                                *)
(***************************************************************************)
LEMMA Start == Init => IInv
<1> SUFFICES ASSUME Init PROVE IInv
  OBVIOUS
<1> USE DEF Init, Idle
<1>1. TypeOK
  BY DEF TypeOK
<1>2. Clients /\ Unspent /\ Channels /\ Results
  BY NoneAssumption DEF Clients, Unspent, Channels, Results, Said
<1>3. Permitted /\ Listings /\ NoGhosts
  BY DEF Permitted, Listings, NoGhosts
<1> QED BY <1>1, <1>2, <1>3 DEF IInv

LEMMA Step == IInv /\ [Next]_vars => IInv'
<1> SUFFICES ASSUME IInv, [Next]_vars PROVE IInv'
  OBVIOUS
<1>1. CASE Cancel
  BY <1>1, CancelStep
<1>2. CASE \E c \in Call : Begin(c) \/ HookBlocks(c) \/ HookPasses(c)
  BY <1>2, BeginStep, HookBlocksStep, HookPassesStep
<1>3. CASE \E c \in Call : Park(c) \/ OpenRow(c) \/ Receive(c) \/ Elapse(c) \/ Expire(c)
  BY <1>3, ParkStep, OpenRowStep, ReceiveStep, ElapseStep, ExpireStep
<1>4. CASE \E c \in Call : Leave(c) \/ CloseRow(c)
  BY <1>4, LeaveStep, CloseRowStep
<1>5. CASE \E c \in Call :
             Execute(c) \/ PostHooks(c) \/ Stop(c) \/ DropSlot(c) \/ LooseWork(c)
  BY <1>5, ExecuteStep, PostHooksStep, StopStep, DropSlotStep, LooseWorkStep
<1>6. CASE \E c \in Call, v \in Said : AnswerHere(c, v)
  BY <1>6, AnswerHereStep
<1>7. CASE \E c \in Call, v \in Said, k \in Client : Take(k, c, v) \/ Find(k, c, v)
  BY <1>7, TakeStep, FindStep
<1>8. CASE \E k \in Client : TakeFound(k) \/ Send(k) \/ CloseAnswered(k)
  BY <1>8, TakeFoundStep, SendStep, CloseAnsweredStep
<1>9. CASE UNCHANGED vars
  BY <1>9 DEF vars, IInv, TypeOK, Clients, Unspent, Channels, Results, Permitted, MayRun,
              Listings, NoGhosts, Guarded
<1> QED BY <1>1, <1>2, <1>3, <1>4, <1>5, <1>6, <1>7, <1>8, <1>9 DEF Next

\* The key of every question is unspent in one place or spent on one answer (the other
\* theorems follow).
THEOREM Invariance == Spec => []IInv
BY Start, Step, PTL DEF Spec

\* Every variable keeps its type (ToolHost::call, the approvers and what answers them).
THEOREM TypeCorrect == Spec => []TypeOK
<1>1. IInv => TypeOK
  BY DEF IInv
<1> QED BY <1>1, Invariance, PTL

\* A tool that needs leave runs only if a person gave it while the call waited, and nobody
\* was told that it was refused (approve, ask, and the work that goes on after a stop).
THEOREM LeaveGiven == Spec => []RunsWithLeave
<1>1. IInv => RunsWithLeave
  BY DEF IInv, Permitted, MayRun, RunsWithLeave
<1> QED BY <1>1, Invariance, PTL

\* A question has one answer, and it is the one the call listens to (the oneshot channel
\* and the map of pending keys).
THEOREM AnsweredOnce == Spec => []OneAnswer
<1>1. IInv => OneAnswer
  <2> SUFFICES ASSUME IInv, NEW c \in Call
               PROVE  Cardinality(told[c]) <= 1 /\ (result[c] \in Said => told[c] = {result[c]})
    BY DEF OneAnswer
  <2>1. told[c] = {} \/ \E v \in told[c] : told[c] = {v}
    BY DEF IInv, Channels
  <2>2. Cardinality(told[c]) <= 1
    BY <2>1, FS_EmptySet, FS_Singleton
  <2> QED BY <2>2 DEF IInv, Results
<1> QED BY <1>1, Invariance, PTL

\* What can be answered or is listed is a question that waits, but for what stopped runs
\* leave behind on the desktop and among the questions of the daemon (the guard of the
\* daemon's approver).
THEOREM GhostsNamed == Spec => []NoGhosts
<1>1. IInv => NoGhosts
  BY DEF IInv
<1> QED BY <1>1, Invariance, PTL
=================================================================================
