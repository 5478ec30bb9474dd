--------------------------- MODULE ChatMessageModel ---------------------------
(***************************************************************************)
(* core/chatmessagemodel.cpp: the rows of the open conversation, fed by    *)
(* the first page of a load, by older pages and by messages as they come.  *)
(* Pages are read by the SQL worker, one job after the other, and applied  *)
(* in that order, to whatever conversation is open by then.                *)
(*                                                                         *)
(* A message is its time of sending, so ids and times are distinct; times  *)
(* of one conversation need not come in order.  Contents, status (see      *)
(* MessageService), roles and QML's own scrolling are left out.            *)
(***************************************************************************)
EXTENDS Naturals, Sequences, SequencesExt, FiniteSetsExt

CONSTANTS
  Conversations,
  MessagesOf, \* of each conversation: the set of its messages, numbers
  Joined,     \* pairs of messages of one sender, the second not 5 minutes later
  Closed,     \* the empty conversation id: none is open
  FirstPage,  \* 40
  Page,       \* 30
  Window,     \* 150: MAX_WINDOW_SIZE
  MaxOpens    \* bound: how often a conversation is opened

ASSUME ChatAssumption ==
  /\ Closed \notin Conversations
  /\ MessagesOf \in [Conversations -> SUBSET Nat]
  /\ {FirstPage, Page, Window, MaxOpens} \subseteq Nat \ {0}

VARIABLES
  activeId,  \* m_activeConversationId
  rows,      \* m_items: message, and its three flags
  canFetch,  \* m_canFetchMore
  fetching,  \* ChatView.isFetchingMore
  history,   \* the worker's table
  jobs,      \* the worker's queue
  replies,   \* its answers, on their way to the main thread
  arrived,   \* history: messages that exist already
  disorder,  \* history: see RowsInOrder
  openings   \* how much of MaxOpens has been used

chatVars == <<activeId, rows, canFetch, fetching, history, jobs, replies, arrived,
              disorder, openings>>

All == UNION {MessagesOf[c] : c \in Conversations}
Row == [m : All, first : BOOLEAN, last : BOOLEAN, unread : BOOLEAN]

ChatTypeOK ==
  /\ activeId \in Conversations \union {Closed}
  /\ rows \in Seq(Row)
  /\ canFetch \in BOOLEAN /\ fetching \in BOOLEAN /\ disorder \in BOOLEAN
  /\ history \subseteq arrived /\ arrived \subseteq All
  /\ \A i \in DOMAIN replies : replies[i].conversation \in Conversations
  /\ openings \in 0 .. MaxOpens

ChatInit ==
  /\ activeId = Closed
  /\ rows = <<>>
  /\ canFetch = FALSE /\ fetching = FALSE /\ disorder = FALSE
  /\ history \in {UNION {{m \in MessagesOf[c] : m < n} : c \in Conversations} : n \in All}
  /\ jobs = <<>> /\ replies = <<>>
  /\ arrived = history
  /\ openings = 0

UnderWay(kind) ==
  \E q \in {jobs, replies} : \E i \in DOMAIN q : q[i].kind = kind /\ q[i].conversation = activeId

(* Pages of earlier visits, pages of other conversations and messages that *)
(* race with them never leave a message twice or out of its place, and     *)
(* never one of another conversation.  Two cases are excepted, of which    *)
(* the findings tell: an older message that comes while an older page is   *)
(* under way, and, after A -> B -> A, a page asked for before A is loaded. *)
RowsInOrder ==
  /\ \A i \in DOMAIN rows : rows[i].m \in MessagesOf[activeId]
  /\ ~disorder /\ ~UnderWay("load") => \A i, j \in DOMAIN rows : i < j => rows[i].m < rows[j].m

(* Block ends meet block starts, and the outermost rows end and start one, *)
(* after insertion at either end or in the middle, removal, replacement    *)
(* and the cut of the window; and the line above the first unread message  *)
(* is drawn at most once.                                                  *)
MarksAgree ==
  /\ rows # <<>> => rows[1].first /\ rows[Len(rows)].last
  /\ \A i \in 1 .. Len(rows) - 1 : rows[i].last = rows[i + 1].first
  /\ \A i, j \in DOMAIN rows : rows[i].unread /\ rows[j].unread => i = j

-----------------------------------------------------------------------------
(* parseVariantMap(): a row starts without marks.                          *)
NewRow(m) == [m |-> m, first |-> TRUE, last |-> TRUE, unread |-> FALSE]

(* recalculateBlocks()                                                     *)
Recalculated(list) ==
  [i \in DOMAIN list |->
    [list[i] EXCEPT
       !.first = ~(i > 1 /\ <<list[i - 1].m, list[i].m>> \in Joined),
       !.last  = ~(i < Len(list) /\ <<list[i].m, list[i + 1].m>> \in Joined)]]

(* The i-th of the messages of a set, by time.                             *)
Nth(set, i) == CHOOSE m \in set : Cardinality({o \in set : o <= m}) = i

(* The newest n messages of a set: ORDER BY timestamp DESC LIMIT n.        *)
Newest(n, set) == {m \in set : Cardinality({o \in set : o > m}) < n}

RowsOf(set) == [i \in 1 .. Cardinality(set) |-> NewRow(Nth(set, i))]

Shown(m) == \E i \in DOMAIN rows : rows[i].m = m

(* The loops over the rows stop at the first row with the id.              *)
RowOf(m) == Min({i \in DOMAIN rows : rows[i].m = m})

Ask(kind, conversation, before) ==
  jobs' = Append(jobs, [kind |-> kind, conversation |-> conversation, m |-> before])

-----------------------------------------------------------------------------
(* setActiveConversation() and loadConversation(), from switchChannel().   *)
Open(c) ==
  /\ openings < MaxOpens
  /\ openings' = openings + 1
  /\ activeId' = c
  /\ rows' = <<>>
  /\ canFetch' = FALSE /\ fetching' = FALSE
  /\ Ask("load", c, 0)
  /\ UNCHANGED <<history, replies, arrived, disorder>>

Close ==
  /\ activeId # Closed
  /\ activeId' = Closed
  /\ rows' = <<>>
  /\ canFetch' = FALSE /\ fetching' = FALSE
  /\ UNCHANGED <<history, jobs, replies, arrived, disorder, openings>>

(* Mutant: the flag that a page is under way is not looked at.             *)
FetchAgain ==
  /\ canFetch /\ rows # <<>> /\ Len(jobs) < 2
  /\ fetching' = TRUE
  /\ Ask("more", activeId, Head(rows).m)
  /\ disorder' = (disorder \/ UnderWay("load"))
  /\ UNCHANGED <<activeId, rows, canFetch, history, replies, arrived, openings>>

(* checkFetchMore() and loadMoreMessages(): what is older than the first.  *)
FetchMore ==
  /\ canFetch /\ ~fetching /\ rows # <<>>
  /\ fetching' = TRUE
  /\ Ask("more", activeId, Head(rows).m)
  /\ disorder' = (disorder \/ UnderWay("load"))
  /\ UNCHANGED <<activeId, rows, canFetch, history, replies, arrived, openings>>

(* upper_bound(): before a newer row, or at the end, and after one that is *)
(* not; in a list out of order there may be several such places.           *)
Inserted(i, m) ==
  /\ i > 0 => rows[i].m <= m
  /\ i < Len(rows) => rows[i + 1].m > m
  /\ rows' = Recalculated(InsertAt(rows, i + 1, NewRow(m)))

(* handleIncomingMessages() or sendMessage(): shown, then saved.           *)
MessageAdded(c, m) ==
  /\ m \in MessagesOf[c] \ arrived
  /\ arrived' = arrived \union {m}
  /\ Ask("save", c, m)
  /\ IF c = activeId THEN \E i \in 0 .. Len(rows) : Inserted(i, m) ELSE UNCHANGED rows
  /\ disorder' = (disorder \/ (c = activeId /\ UnderWay("more")
                               /\ \A i \in DOMAIN rows : m < rows[i].m))
  /\ UNCHANGED <<activeId, canFetch, fetching, history, replies, openings>>

(* The same id again, the answer to a media offer: its row is replaced.    *)
MessageReplaced(m) ==
  /\ Shown(m)
  /\ rows' = Recalculated([rows EXCEPT ![RowOf(m)] = NewRow(m)])
  /\ UNCHANGED <<activeId, canFetch, fetching, history, jobs, replies, arrived,
                 disorder, openings>>

(* Mutant: the neighbours of a removed row keep their flags.               *)
RemoveRow(m) ==
  /\ Shown(m)
  /\ rows' = RemoveAt(rows, RowOf(m))
  /\ history' = history \ {m}
  /\ UNCHANGED <<activeId, canFetch, fetching, jobs, replies, arrived, disorder, openings>>

(* onMessageRemoved(); the worker's deletion is taken as done.             *)
MessageRemoved(m) ==
  /\ Shown(m)
  /\ rows' = Recalculated(RemoveAt(rows, RowOf(m)))
  /\ history' = history \ {m}
  /\ UNCHANGED <<activeId, canFetch, fetching, jobs, replies, arrived, disorder, openings>>

-----------------------------------------------------------------------------
(* The SQL worker, and its callbacks on the main thread.                   *)

Work ==
  /\ jobs # <<>>
  /\ LET j    == Head(jobs)
         kept == history \intersect MessagesOf[j.conversation]
         page == IF j.kind = "load" THEN Newest(FirstPage, kept)
                 ELSE Newest(Page, {m \in kept : m < j.m})
     IN IF j.kind = "save"
        THEN history' = history \union {j.m} /\ UNCHANGED replies
        ELSE /\ replies' = Append(replies, [kind |-> j.kind, conversation |-> j.conversation,
                                            page |-> page])
             /\ UNCHANGED history
  /\ jobs' = Tail(jobs)
  /\ UNCHANGED <<activeId, rows, canFetch, fetching, arrived, disorder, openings>>

(* onConversationLoaded()                                                  *)
Loaded ==
  /\ replies # <<>> /\ Head(replies).kind = "load"
  /\ IF Head(replies).conversation = activeId
     THEN /\ rows' = Recalculated(RowsOf(Head(replies).page))
          /\ canFetch' = (Cardinality(Head(replies).page) >= FirstPage)
          /\ disorder' = (disorder /\ UnderWay("more"))
     ELSE UNCHANGED <<rows, canFetch, disorder>>
  /\ replies' = Tail(replies)
  /\ UNCHANGED <<activeId, fetching, history, jobs, arrived, openings>>

(* prependMessages(): no sorting and no search for ids; the newest rows    *)
(* go when there are too many.                                             *)
MoreLoaded ==
  /\ replies # <<>> /\ Head(replies).kind = "more"
  /\ IF Head(replies).conversation = activeId
     THEN LET list == RowsOf(Head(replies).page) \o rows IN
          /\ rows' = Recalculated(IF Head(replies).page = {} THEN rows
                                  ELSE SubSeq(list, 1, Min({Len(list), Window})))
          /\ canFetch' = (Cardinality(Head(replies).page) >= Page)
     ELSE UNCHANGED <<rows, canFetch>>
  /\ fetching' = FALSE
  /\ replies' = Tail(replies)
  /\ UNCHANGED <<activeId, history, jobs, arrived, disorder, openings>>

-----------------------------------------------------------------------------
(* The line above the first unread message, set and cleared by ChatView.   *)

Marked(P(_)) == [i \in DOMAIN rows |-> [rows[i] EXCEPT !.unread = P(i)]]

(* setFirstUnreadMessageId(): a line that is there stays where it is.      *)
MarkMessage(m) ==
  /\ Shown(m)
  /\ rows' = IF \E i \in DOMAIN rows : rows[i].unread THEN rows
             ELSE Marked(LAMBDA i : i = RowOf(m))
  /\ UNCHANGED <<activeId, canFetch, fetching, history, jobs, replies, arrived,
                 disorder, openings>>

(* setFirstUnreadIndex(), and clearFirstUnread() as index 0.               *)
MarkIndex(n) ==
  /\ rows' = Marked(LAMBDA i : i = n)
  /\ UNCHANGED <<activeId, canFetch, fetching, history, jobs, replies, arrived,
                 disorder, openings>>

ChatNext ==
  \/ Close \/ FetchMore \/ Work \/ Loaded \/ MoreLoaded
  \/ \E c \in Conversations : Open(c) \/ (\E m \in MessagesOf[c] : MessageAdded(c, m))
  \/ \E m \in All : MessageReplaced(m) \/ MessageRemoved(m) \/ MarkMessage(m)
  \/ \E n \in 0 .. Len(rows) : MarkIndex(n)

ChatSpec == ChatInit /\ [][ChatNext]_chatVars
================================================================================
