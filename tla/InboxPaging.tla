----------------------------- MODULE InboxPaging -----------------------------
(***************************************************************************)
(* Reading a mailbox page by page, newest first, by way of                 *)
(* /api/inbox?before_uid= of src/internal/server/server.go and the IMAP    *)
(* client of src/internal/mail/client.go: all messages, or those to one    *)
(* alias by the server's search or, when that fails or finds nothing, by   *)
(* a scan of the headers.  Mail arrives and is expunged between any two    *)
(* commands, and every page may be found the other way.                    *)
(*                                                                         *)
(* A message is its UID, and UIDs stay valid: nothing in the client looks  *)
(* at UIDVALIDITY, so that a mailbox numbered anew is another mailbox, and *)
(* its reading another one.  What a page says of a message, and the order  *)
(* within one page, are left out; a message that the days of a request no  *)
(* longer cover has been expunged here.                                    *)
(***************************************************************************)
EXTENDS Naturals, FiniteSets

CONSTANTS
    Limit,     \* limit of the requests
    ScanLimit, \* scanLimit
    MaxUID,    \* bound: messages that ever arrive
    MaxFailures \* bound: requests that fail and are repeated

ASSUME PagingAssumption ==
    /\ Limit \in Nat \ {0} /\ ScanLimit \in Nat \ {0} /\ MaxUID \in Nat
    /\ MaxFailures \in Nat

VARIABLES
    arrived, \* the highest UID given out
    box,     \* the mailbox
    mine,    \* the messages that are addressed to the alias
    reader,  \* the one who pages, and the request under way
    top,     \* the highest UID when the reading began
    failed,  \* requests that failed so far
    times    \* how often each message was shown: not, once, or more than once

mailbox == <<arrived, box, mine>>
pagingVars == <<mailbox, reader, top, failed, times>>

UIDs   == 1..MaxUID
Cursor == 0..MaxUID           \* before_uid; 0 is the first page, or no other
PagingPhases == {"ask", "search", "page", "scan", "done", "web"}
Reader == [phase  : PagingPhases,
           alias  : BOOLEAN,         \* reads the messages to one alias
           before : Cursor,
           rest   : SUBSET UIDs,     \* candidates not yet fetched
           found  : SUBSET UIDs]     \* matchedUIDs

Wanted(u) == reader.alias => u \in mine

PagingInit ==
    /\ arrived \in Cursor
    /\ box \in SUBSET (1..arrived)
    /\ mine \in SUBSET UIDs
    /\ \E alias \in BOOLEAN :
         reader = [phase |-> "ask", alias |-> alias, before |-> 0, rest |-> {}, found |-> {}]
    /\ top = arrived
    /\ failed = 0
    /\ times = [u \in UIDs |-> 0]
-----------------------------------------------------------------------------
(* Pages of a set of UIDs.                                                 *)

(* Broken variant: the cursor is not looked at. *)
EligibleAll(uids, before) == uids

Eligible(uids, before) == {u \in uids : before = 0 \/ u < before}

Highest(uids, n) == {u \in uids : Cardinality({v \in uids : v > u}) < n}
Lowest(uids)     == CHOOSE u \in uids : \A v \in uids : u <= v

(* Broken variant: the next page begins below what is left over. *)
NextCursorBelow(uids) ==
    IF Cardinality(uids) <= Limit THEN 0 ELSE Lowest(Highest(uids, Limit + 1))

(* Below the page of these UIDs there is another one, or not: 0.           *)
NextCursor(uids) ==
    IF Cardinality(uids) <= Limit THEN 0 ELSE Lowest(Highest(uids, Limit))

(* A page is answered; the reader asks for the next one if there is one.   *)
Answer(shown, next) ==
    /\ times' = [u \in UIDs |-> IF u \in shown /\ times[u] < 2 THEN times[u] + 1 ELSE times[u]]
    /\ reader' = [reader EXCEPT !.phase = IF next = 0 THEN "done" ELSE "ask",
                                !.before = next, !.rest = {}, !.found = {}]
-----------------------------------------------------------------------------
(* A request of the reader.                                                *)

(* The search of listInboxPage, and the TO search of findByRecipientPage:  *)
(* the server may be unable to search, or find nothing, at any time.       *)
Search ==
    /\ reader.phase = "ask"
    /\ LET hits == {u \in box : Wanted(u)} IN
         reader' = IF reader.alias /\ hits = {}
                   THEN [reader EXCEPT !.phase = "search"]
                   ELSE [reader EXCEPT !.phase = "page",
                                       !.rest = Eligible(hits, reader.before)]
    /\ UNCHANGED <<mailbox, top, failed, times>>

SearchFindsNothing ==
    /\ reader.phase = "ask" /\ reader.alias
    /\ reader' = [reader EXCEPT !.phase = "search"]
    /\ UNCHANGED <<mailbox, top, failed, times>>

(* fetchUIDPage: what was expunged since the search is not answered.       *)
FetchPage ==
    /\ reader.phase = "page"
    /\ Answer(Highest(reader.rest, Limit) \cap box, NextCursor(reader.rest))
    /\ UNCHANGED <<mailbox, top, failed>>

(* findByRecipientFallbackPage: all UIDs first, then their headers, chunk  *)
(* by chunk, until one more than a page has matched.                       *)
SearchAll ==
    /\ reader.phase = "search"
    /\ reader' = [reader EXCEPT !.phase = "scan", !.rest = Eligible(box, reader.before)]
    /\ UNCHANGED <<mailbox, top, failed, times>>

(* Broken variant: a chunk is matched to its end. *)
ScanWholeChunk ==
    /\ reader.phase = "scan" /\ reader.rest # {} /\ Cardinality(reader.found) <= Limit
    /\ LET chunk == Highest(reader.rest, ScanLimit) IN
         reader' = [reader EXCEPT !.rest = @ \ chunk,
                                  !.found = @ \cup (chunk \cap box \cap mine)]
    /\ UNCHANGED <<mailbox, top, failed, times>>

Scanned == reader.rest = {} \/ Cardinality(reader.found) > Limit

ScanChunk ==
    /\ reader.phase = "scan" /\ ~Scanned
    /\ LET chunk   == Highest(reader.rest, ScanLimit)
           matched == chunk \cap box \cap mine IN
         reader' = [reader EXCEPT !.rest = @ \ chunk,
                                  !.found = Highest(@ \cup matched, Limit + 1)]
    /\ UNCHANGED <<mailbox, top, failed, times>>

(* The headers are answered as they were read; previews are fetched, and   *)
(* what was expunged meanwhile is missing.                                 *)
AnswerScan(previews) ==
    /\ reader.phase = "scan" /\ Scanned
    /\ LET page == Highest(reader.found, Limit) IN
         Answer(IF previews THEN page \cap box ELSE page, NextCursor(reader.found))
    /\ UNCHANGED <<mailbox, top, failed>>

(* The IMAP operation fails: the first page comes from the Web API then,   *)
(* and is the only one.  A later page, or a first one that the Web API     *)
(* cannot give either, is refused and may be asked again.                  *)
RequestFails(refused) ==
    /\ reader.phase \in {"ask", "search", "page", "scan"}
    /\ refused \/ reader.before = 0
    /\ failed < MaxFailures
    /\ failed' = failed + 1
    /\ reader' = [reader EXCEPT !.phase = IF refused THEN "ask" ELSE "web",
                                !.rest = {}, !.found = {}]
    /\ UNCHANGED <<mailbox, top, times>>
-----------------------------------------------------------------------------
MailArrives ==
    /\ arrived < MaxUID
    /\ arrived' = arrived + 1
    /\ box' = box \cup {arrived'}
    /\ UNCHANGED <<mine, reader, top, failed, times>>

Expunge(u) ==
    /\ u \in box
    /\ box' = box \ {u}
    /\ UNCHANGED <<arrived, mine, reader, top, failed, times>>

Request ==
    \/ Search \/ SearchFindsNothing \/ FetchPage
    \/ SearchAll \/ ScanChunk \/ \E previews \in BOOLEAN : AnswerScan(previews)

PagingNext ==
    \/ Request
    \/ \E refused \in BOOLEAN : RequestFails(refused)
    \/ MailArrives
    \/ \E u \in UIDs : Expunge(u)

(* Requests run on. *)
PagingFairness == WF_pagingVars(Request)

PagingSpec == PagingInit /\ [][PagingNext]_pagingVars /\ PagingFairness
-----------------------------------------------------------------------------
(* Every variable keeps its type, and a scan holds at most one message     *)
(* more than a page.                                                       *)
PagingTypeOK ==
    /\ arrived \in Cursor /\ top \in 0..arrived
    /\ box \subseteq 1..arrived /\ mine \subseteq UIDs
    /\ reader \in Reader
    /\ Cardinality(reader.found) <= Limit + 1
    /\ failed \in 0..MaxFailures
    /\ times \in [UIDs -> 0..2]

(* No message is shown twice, and none that was there when the reading     *)
(* began and has not been expunged is left out between the pages, whatever *)
(* arrives, is expunged, or is searched one way and then the other.        *)
NoDuplicateNoGap ==
    /\ \A u \in UIDs : times[u] <= 1
    /\ (reader.before > 0 \/ reader.phase = "done") =>
         \A u \in box : Wanted(u) /\ u <= top /\ u >= reader.before => times[u] = 1

(* The pages come to an end, though mail may arrive all the time.          *)
PagingEnds == <>(reader.phase \in {"done", "web"})
=============================================================================
