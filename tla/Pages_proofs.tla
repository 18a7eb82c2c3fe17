------------------------------ MODULE Pages_proofs ------------------------------
(* The pages of the browser.  First the handoff page: what it shows and what *)
(* is confirmed belong to what the user ticked, for any number of requests,  *)
(* answered, lost or repeated in any order, and of changes made meanwhile.   *)
(* Then the pages of tasks: a page shows the answer to its last request, and *)
(* a draft stays with its database and its revision, for any number of tabs, *)
(* tasks, databases, services and requests on their way.  Last the settings  *)
(* pages: what they are told of their jobs, and of what they removed, is     *)
(* true, for any number of pages, sources, runs, jobs and restarts.          *)
EXTENDS ContinuePage, WebClient, SettingsPage, Integers, TLAPS

Versions == [record : Nat, files : Int]
States == {"prepared", "confirmed", "launching"}
Handoffs == [record : Nat, files : Int, choice : Choices, state : States, expired : BOOLEAN, asReviewed : BOOLEAN]
Stages == {"sent", "read", "captured", "reviewed", "compared", "ok", "error"}
Requests == [asks : {"prepare", "confirm"}, choice : Choices, at : Stages, record : Versions, handoff : Nat]
Shows == [handoff : Nat, expired : BOOLEAN, ack : BOOLEAN, command : Nat]

PageTyped ==
  /\ world \in Versions /\ changes \in Nat
  /\ handoffs \in Seq(Handoffs) /\ requests \in Seq(Requests)
  /\ seen \in Seq(SUBSET Versions) /\ Len(seen) = Len(handoffs)
  /\ page \in [choice : Choices, busy : Nat, shows : Shows]

\* Once a text is ticked, every state of the world is noted.
Watched == \A h \in DOMAIN seen : seen[h] # {} => world \in seen[h]

\* What a request asks for, and what it has found out.
RequestTrue(r) ==
  /\ r.asks = "prepare" /\ r.at = "ok" => r.handoff \in DOMAIN handoffs /\ handoffs[r.handoff].choice = r.choice
  /\ r.asks = "confirm" =>
       /\ r.handoff \in DOMAIN handoffs /\ seen[r.handoff] # {}
       /\ r.at = "compared" => \E w \in seen[r.handoff] : w.files = handoffs[r.handoff].files
       /\ r.at = "ok" => handoffs[r.handoff].state \in {"confirmed", "launching"}

RequestsTrue == \A n \in DOMAIN requests : RequestTrue(requests[n])

\* The request the page waits for is about its choices, and about the preview it shows.
Waiting ==
  page.busy # 0 =>
    /\ page.busy \in DOMAIN requests
    /\ LET r == requests[page.busy] IN
       /\ r.choice = page.choice
       /\ r.asks = "prepare" => page.shows = NoShow
       /\ r.asks = "confirm" => r.handoff = page.shows.handoff

PageInv ==
  /\ PageTyped /\ Watched /\ RequestsTrue /\ Waiting
  /\ page.shows.handoff \in 0 .. Len(handoffs) /\ PageShowsItsHandoff /\ ConfirmedAsReviewed

LEMMA PageIsTyped ==
  ASSUME PageInv
  PROVE  /\ world \in Versions /\ changes \in Nat /\ Len(handoffs) \in Nat /\ Len(requests) \in Nat
         /\ DOMAIN handoffs = 1 .. Len(handoffs) /\ DOMAIN requests = 1 .. Len(requests)
         /\ DOMAIN seen = 1 .. Len(handoffs)
         /\ \A h \in DOMAIN handoffs : handoffs[h] \in Handoffs /\ seen[h] \in SUBSET Versions
         /\ \A n \in DOMAIN requests : requests[n] \in Requests
         /\ page \in [choice : Choices, busy : Nat, shows : Shows] /\ page.shows \in Shows
BY DEF PageInv, PageTyped

-----------------------------------------------------------------------------
(* The world around the page.                                                *)

LEMMA BecomeKeeps == ASSUME PageInv, NEW w \in Versions, Become(w) PROVE PageInv'
<1> USE PageIsTyped
<1>1. /\ changes' = changes + 1 /\ world' = w /\ UNCHANGED <<handoffs, requests, page>>
      /\ seen' = [h \in 1 .. Len(handoffs) |-> IF seen[h] = {} THEN {} ELSE seen[h] \cup {w}]
  BY DEF Become
<1>2. /\ seen' \in Seq(SUBSET Versions) /\ Len(seen') = Len(handoffs) /\ DOMAIN seen' = 1 .. Len(handoffs)
  BY <1>1
<1>3. \A h \in 1 .. Len(handoffs) : seen[h] \subseteq seen'[h] /\ (seen'[h] # {} => w \in seen'[h])
  BY <1>1
<1>4. PageTyped' /\ Watched'
  BY <1>1, <1>2, <1>3 DEF PageInv, PageTyped, Watched
<1>5. RequestsTrue'
  <2>1. ASSUME NEW n \in DOMAIN requests PROVE RequestTrue(requests[n])'
    <3>1. RequestTrue(requests[n])
      BY DEF PageInv, RequestsTrue
    <3> QED BY <1>1, <1>3, <3>1 DEF RequestTrue
  <2> QED BY <1>1, <2>1 DEF RequestsTrue
<1>6. Waiting' /\ page'.shows.handoff \in 0 .. Len(handoffs')
  BY <1>1 DEF PageInv, Waiting
<1>7. PageShowsItsHandoff'
  BY <1>1 DEF PageInv, PageShowsItsHandoff
<1>8. ConfirmedAsReviewed'
  BY <1>1, <1>3 DEF PageInv, ConfirmedAsReviewed
<1> QED BY <1>4, <1>5, <1>6, <1>7, <1>8 DEF PageInv

LEMMA ChangeKeeps == ASSUME PageInv, Change PROVE PageInv'
<1>1. world \in Versions /\ changes \in Nat
  BY PageIsTyped
<1>2. PICK w \in {[world EXCEPT !.record = changes + 2], [world EXCEPT !.record = 1], [world EXCEPT !.files = 3 - @]} : Become(w)
  BY DEF Change
<1>3. w \in Versions
  BY <1>1, <1>2 DEF Versions
<1> QED BY <1>2, <1>3, BecomeKeeps

\* A handoff that passes its time, or that a terminal takes, stays what it says.
LEMMA HandoffKeeps ==
  ASSUME PageInv, NEW h \in DOMAIN handoffs, NEW r \in Handoffs, handoffs' = [handoffs EXCEPT ![h] = r],
         UNCHANGED <<world, changes, requests, page, seen>>,
         r.choice = handoffs[h].choice, r.files = handoffs[h].files, r.asReviewed,
         r.state # "prepared" => seen[h] # {},
         handoffs[h].state \in {"confirmed", "launching"} => r.state \in {"confirmed", "launching"}
  PROVE  PageInv'
<1> USE PageIsTyped
<1>1. /\ handoffs' \in Seq(Handoffs) /\ Len(handoffs') = Len(handoffs) /\ DOMAIN handoffs' = 1 .. Len(handoffs)
      /\ handoffs'[h] = r /\ \A g \in DOMAIN handoffs : g # h => handoffs'[g] = handoffs[g]
  BY DEF PageInv, PageTyped
<1>2. \A g \in DOMAIN handoffs :
        /\ handoffs'[g].choice = handoffs[g].choice /\ handoffs'[g].files = handoffs[g].files
        /\ handoffs[g].state \in {"confirmed", "launching"} => handoffs'[g].state \in {"confirmed", "launching"}
  BY <1>1
<1>3. PageTyped' /\ Watched'
  BY <1>1 DEF PageInv, PageTyped, Watched
<1>4. RequestsTrue'
  <2>1. ASSUME NEW n \in DOMAIN requests PROVE RequestTrue(requests[n])'
    <3>1. RequestTrue(requests[n])
      BY DEF PageInv, RequestsTrue
    <3> QED BY <1>1, <1>2, <3>1 DEF RequestTrue
  <2> QED BY <2>1 DEF RequestsTrue
<1>5. Waiting' /\ page'.shows.handoff \in 0 .. Len(handoffs')
  BY <1>1 DEF PageInv, Waiting
<1>6. PageShowsItsHandoff'
  BY <1>1, <1>2 DEF PageInv, PageShowsItsHandoff
<1>7. ConfirmedAsReviewed'
  BY <1>1 DEF PageInv, ConfirmedAsReviewed
<1> QED BY <1>3, <1>4, <1>5, <1>6, <1>7 DEF PageInv

LEMMA ExpireOrLaunchKeeps == ASSUME PageInv, NEW h \in DOMAIN handoffs, Expire(h) \/ Launch(h) PROVE PageInv'
<1> USE PageIsTyped
<1>1. handoffs[h] \in Handoffs /\ handoffs[h].asReviewed /\ (handoffs[h].state # "prepared" => seen[h] # {})
  BY DEF PageInv, ConfirmedAsReviewed
<1>2. CASE Expire(h)
  <2> DEFINE r == [handoffs[h] EXCEPT !.expired = TRUE]
  <2>1. r \in Handoffs /\ r.choice = handoffs[h].choice /\ r.files = handoffs[h].files
        /\ r.asReviewed = handoffs[h].asReviewed /\ r.state = handoffs[h].state
    BY <1>1 DEF Handoffs
  <2>2. handoffs' = [handoffs EXCEPT ![h] = r] /\ UNCHANGED <<world, changes, requests, page, seen>>
    BY <1>2 DEF Expire
  <2> HIDE DEF r
  <2> QED BY <1>1, <2>1, <2>2, HandoffKeeps
<1>3. CASE Launch(h)
  <2> DEFINE r == [handoffs[h] EXCEPT !.state = "launching"]
  <2>1. r \in Handoffs /\ r.choice = handoffs[h].choice /\ r.files = handoffs[h].files
        /\ r.asReviewed = handoffs[h].asReviewed /\ r.state = "launching"
    BY <1>1 DEF Handoffs, States
  <2>2. handoffs' = [handoffs EXCEPT ![h] = r] /\ UNCHANGED <<world, changes, requests, page, seen>>
    BY <1>3 DEF Launch
  <2>3. seen[h] # {}
    BY <1>1, <1>3 DEF Launch
  <2> HIDE DEF r
  <2> QED BY <1>1, <2>1, <2>2, <2>3, HandoffKeeps
<1> QED BY <1>2, <1>3

-----------------------------------------------------------------------------
(* The page.                                                                 *)

\* The page changes alone, and waits for nothing or for what it waited for.
LEMMA PageKeeps ==
  ASSUME PageInv, UNCHANGED <<world, changes, handoffs, requests, seen>>,
         page' \in [choice : Choices, busy : Nat, shows : Shows],
         page'.shows.handoff \in 0 .. Len(handoffs), Waiting', PageShowsItsHandoff'
  PROVE  PageInv'
BY DEF PageInv, PageTyped, Watched, RequestsTrue, RequestTrue, ConfirmedAsReviewed

LEMMA OpenedIsTyped ==
  /\ NoShow \in Shows /\ NoShow.handoff = 0 /\ NoShow.ack = FALSE /\ NoShow.command = 0
  /\ \A c \in Choices : /\ Opened(c) \in [choice : Choices, busy : Nat, shows : Shows]
                         /\ Opened(c).shows = NoShow /\ Opened(c).busy = 0 /\ Opened(c).choice = c
BY DEF NoShow, Opened, Shows

\* A page that shows nothing and waits for nothing shows nothing wrong.
LEMMA FreshPageKeeps ==
  ASSUME PageInv, UNCHANGED <<world, changes, handoffs, requests, seen>>,
         page' \in [choice : Choices, busy : Nat, shows : Shows], page'.busy = 0, page'.shows = NoShow
  PROVE  PageInv'
BY PageKeeps, PageIsTyped, OpenedIsTyped DEF Waiting, PageShowsItsHandoff

LEMMA ChooseKeeps == ASSUME PageInv, NEW c \in Choices, Choose(c) PROVE PageInv'
<1> USE PageIsTyped
<1>1. page' = [page EXCEPT !.choice = c, !.shows = NoShow] /\ page.busy = 0
      /\ UNCHANGED <<world, changes, handoffs, requests, seen>>
  BY DEF Choose, Reset, Idle
<1>2. page' \in [choice : Choices, busy : Nat, shows : Shows] /\ page'.busy = 0 /\ page'.shows = NoShow
  BY <1>1, OpenedIsTyped
<1> QED BY <1>1, <1>2, FreshPageKeeps

LEMMA RemountKeeps == ASSUME PageInv, Remount PROVE PageInv'
<1>1. PICK c \in Choices : page' = Opened(c)
  BY DEF Remount
<1> QED BY <1>1, OpenedIsTyped, FreshPageKeeps DEF Remount

\* What the page shows of its handoff: the clock or the tick.
LEMMA SeeExpiredKeeps == ASSUME PageInv, SeeExpired PROVE PageInv'
<1> USE PageIsTyped
<1> DEFINE shows == [page.shows EXCEPT !.expired = TRUE]
<1>1. page' = [page EXCEPT !.shows = shows] /\ page.shows.handoff # 0 /\ UNCHANGED <<world, changes, handoffs, requests, seen>>
  BY DEF SeeExpired, Show
<1>2. shows \in Shows /\ shows.handoff = page.shows.handoff /\ shows.ack = page.shows.ack /\ shows.command = page.shows.command
  BY DEF Shows
<1> HIDE DEF shows
<1>3. /\ page' \in [choice : Choices, busy : Nat, shows : Shows]
      /\ page'.choice = page.choice /\ page'.busy = page.busy /\ page'.shows = shows
  BY <1>1, <1>2
<1>4. PageShowsItsHandoff' /\ page'.shows.handoff \in 0 .. Len(handoffs)
  BY <1>1, <1>2, <1>3 DEF PageInv, PageShowsItsHandoff
<1>5. Waiting'
  BY <1>1, <1>2, <1>3, OpenedIsTyped DEF PageInv, Waiting, RequestsTrue, RequestTrue, Requests
<1> QED BY <1>1, <1>3, <1>4, <1>5, PageKeeps

\* From the first tick on, the world is watched.
LEMMA TickKeeps == ASSUME PageInv, Tick PROVE PageInv'
<1> USE PageIsTyped
<1> DEFINE shows == [page.shows EXCEPT !.ack = ~@]  h == page.shows.handoff
<1>1. /\ page' = [page EXCEPT !.shows = shows] /\ h # 0 /\ page.busy = 0
      /\ seen' = [seen EXCEPT ![h] = IF seen[h] = {} THEN {world} ELSE seen[h]]
      /\ UNCHANGED <<world, changes, handoffs, requests>>
  BY DEF Tick, Show, Idle
<1>2. shows \in Shows /\ shows.handoff = h /\ shows.command = page.shows.command
  BY DEF Shows
<1>3. h \in DOMAIN handoffs
  BY <1>1 DEF PageInv
<1> HIDE DEF shows, h
<1>4. /\ seen' \in Seq(SUBSET Versions) /\ Len(seen') = Len(handoffs) /\ DOMAIN seen' = 1 .. Len(handoffs)
      /\ seen'[h] # {} /\ world \in seen'[h] /\ seen[h] \subseteq seen'[h]
      /\ \A g \in DOMAIN handoffs : g # h => seen'[g] = seen[g]
  <2>1. PICK v : v = IF seen[h] = {} THEN {world} ELSE seen[h]
    OBVIOUS
  <2>2. v \in SUBSET Versions /\ v # {} /\ world \in v /\ seen[h] \subseteq v
    BY <1>3, <2>1 DEF PageInv, Watched
  <2>3. seen \in Seq(SUBSET Versions) /\ Len(seen) = Len(handoffs) /\ seen' = [seen EXCEPT ![h] = v]
    BY <1>1, <2>1 DEF PageInv, PageTyped
  <2> QED BY <1>3, <2>2, <2>3
<1>5. /\ page' \in [choice : Choices, busy : Nat, shows : Shows]
      /\ page'.choice = page.choice /\ page'.busy = 0 /\ page'.shows = shows
  BY <1>1, <1>2
<1>6. \A g \in DOMAIN handoffs : seen[g] \subseteq seen'[g]
  BY <1>4
<1>7. PageTyped' /\ Watched' /\ Waiting'
  BY <1>1, <1>4, <1>5 DEF PageInv, PageTyped, Watched, Waiting
<1>8. RequestsTrue'
  <2>1. ASSUME NEW n \in DOMAIN requests PROVE RequestTrue(requests[n])'
    <3>1. RequestTrue(requests[n])
      BY DEF PageInv, RequestsTrue
    <3> QED BY <1>1, <1>6, <3>1 DEF RequestTrue
  <2> QED BY <1>1, <2>1 DEF RequestsTrue
<1>9. PageShowsItsHandoff' /\ page'.shows.handoff \in 0 .. Len(handoffs')
  BY <1>1, <1>2, <1>3, <1>4, <1>5 DEF PageInv, PageShowsItsHandoff, h
<1>10. ConfirmedAsReviewed'
  BY <1>1, <1>6 DEF PageInv, ConfirmedAsReviewed
<1> QED BY <1>7, <1>8, <1>9, <1>10 DEF PageInv

-----------------------------------------------------------------------------
(* The service.                                                              *)

\* A new request, for which the page waits.
LEMMA SendKeeps ==
  ASSUME PageInv, NEW r \in Requests, r.at = "sent", r.choice = page.choice, requests' = Append(requests, r),
         r.asks = "prepare" => page'.shows = NoShow,
         r.asks = "confirm" => page'.shows = page.shows /\ r.handoff = page.shows.handoff /\ r.handoff # 0 /\ page.shows.ack,
         page' \in [choice : Choices, busy : Nat, shows : Shows], page'.choice = page.choice,
         page'.busy = Len(requests) + 1, UNCHANGED <<world, changes, handoffs, seen>>
  PROVE  PageInv'
<1> USE PageIsTyped
<1>1. /\ requests' \in Seq(Requests) /\ Len(requests') = Len(requests) + 1 /\ DOMAIN requests' = 1 .. Len(requests) + 1
      /\ requests'[Len(requests) + 1] = r /\ \A n \in DOMAIN requests : requests'[n] = requests[n]
  BY DEF PageInv, PageTyped
<1>2. PageTyped' /\ Watched'
  BY <1>1 DEF PageInv, PageTyped, Watched
<1>3. r.asks = "confirm" => r.handoff \in DOMAIN handoffs /\ seen[r.handoff] # {}
  BY DEF PageInv, PageShowsItsHandoff
<1>4. RequestsTrue'
  <2>1. ASSUME NEW n \in DOMAIN requests' PROVE RequestTrue(requests[n])'
    <3>1. CASE n = Len(requests) + 1
      BY <1>1, <1>3, <3>1 DEF RequestTrue
    <3>2. CASE n # Len(requests) + 1
      <4>1. n \in DOMAIN requests /\ requests'[n] = requests[n]
        BY <1>1, <3>2
      <4>2. RequestTrue(requests[n])
        BY <4>1 DEF PageInv, RequestsTrue
      <4> QED BY <4>1, <4>2 DEF RequestTrue
    <3> QED BY <3>1, <3>2
  <2> QED BY <2>1 DEF RequestsTrue
<1>5. r.asks \in {"prepare", "confirm"}
  BY DEF Requests
<1>6. Waiting'
  BY <1>1, <1>5 DEF Waiting
<1>7. PageShowsItsHandoff' /\ page'.shows.handoff \in 0 .. Len(handoffs')
  <2>1. CASE r.asks = "prepare"
    BY <2>1, OpenedIsTyped DEF PageShowsItsHandoff
  <2>2. CASE r.asks = "confirm"
    BY <2>2 DEF PageInv, PageShowsItsHandoff
  <2> QED BY <1>5, <2>1, <2>2
<1>8. ConfirmedAsReviewed'
  BY DEF PageInv, ConfirmedAsReviewed
<1> QED BY <1>2, <1>4, <1>6, <1>7, <1>8 DEF PageInv

LEMMA PrepareKeeps == ASSUME PageInv, Prepare PROVE PageInv'
<1> USE PageIsTyped
<1> DEFINE r == [asks |-> "prepare", choice |-> page.choice, at |-> "sent", record |-> NoRecord, handoff |-> 0]
<1>1. requests' = Append(requests, r) /\ UNCHANGED <<world, changes, handoffs, seen>>
      /\ page' = [page EXCEPT !.busy = Len(requests) + 1, !.shows = NoShow]
  BY DEF Prepare, Send, Reset
<1>2. r \in Requests /\ r.at = "sent" /\ r.choice = page.choice /\ r.asks = "prepare"
  BY DEF Requests, Versions, NoRecord, Stages
<1>3. /\ page' \in [choice : Choices, busy : Nat, shows : Shows] /\ page'.choice = page.choice
      /\ page'.busy = Len(requests) + 1 /\ page'.shows = NoShow
  <2>1. PICK busy \in Nat : busy = Len(requests) + 1
    OBVIOUS
  <2>2. page' = [page EXCEPT !.busy = busy, !.shows = NoShow] /\ NoShow \in Shows
    BY <1>1, <2>1, OpenedIsTyped
  <2> QED BY <2>1, <2>2
<1> HIDE DEF r
<1> QED BY <1>1, <1>2, <1>3, SendKeeps

LEMMA AskToConfirmKeeps == ASSUME PageInv, AskToConfirm PROVE PageInv'
<1> USE PageIsTyped
<1> DEFINE r == [asks |-> "confirm", choice |-> page.choice, at |-> "sent", record |-> NoRecord,
                 handoff |-> page.shows.handoff]
<1>1. requests' = Append(requests, r) /\ UNCHANGED <<world, changes, handoffs, seen>>
      /\ page' = [page EXCEPT !.busy = Len(requests) + 1] /\ page.shows.handoff # 0 /\ page.shows.ack
  BY DEF AskToConfirm, Send
<1>2. /\ r \in Requests /\ r.at = "sent" /\ r.choice = page.choice /\ r.asks = "confirm"
      /\ r.handoff = page.shows.handoff
  BY DEF Requests, Versions, NoRecord, Stages, Shows
<1>3. /\ page' \in [choice : Choices, busy : Nat, shows : Shows] /\ page'.choice = page.choice
      /\ page'.busy = Len(requests) + 1 /\ page'.shows = page.shows
  BY <1>1
<1> HIDE DEF r
<1> QED BY <1>1, <1>2, <1>3, SendKeeps

\* A request goes on, and asks for what it asked for.
LEMMA RequestKeeps ==
  ASSUME PageInv, NEW n \in DOMAIN requests, NEW r \in Requests, requests' = [requests EXCEPT ![n] = r],
         UNCHANGED <<world, changes, handoffs, page, seen>>,
         r.asks = requests[n].asks, r.choice = requests[n].choice,
         r.asks = "confirm" => r.handoff = requests[n].handoff, RequestTrue(r)
  PROVE  PageInv'
<1> USE PageIsTyped
<1>1. /\ requests' \in Seq(Requests) /\ Len(requests') = Len(requests) /\ DOMAIN requests' = DOMAIN requests
      /\ requests'[n] = r /\ \A k \in DOMAIN requests : k # n => requests'[k] = requests[k]
  BY DEF PageInv, PageTyped
<1>2. PageTyped' /\ Watched'
  BY <1>1 DEF PageInv, PageTyped, Watched
<1>3. RequestsTrue'
  <2>1. ASSUME NEW k \in DOMAIN requests PROVE RequestTrue(requests[k])'
    <3>1. PICK q : q = requests'[k]
      OBVIOUS
    <3>2. RequestTrue(q)
      BY <1>1, <3>1 DEF PageInv, RequestsTrue
    <3> QED BY <3>1, <3>2 DEF RequestTrue
  <2> QED BY <1>1, <2>1 DEF RequestsTrue
<1>4. Waiting'
  BY <1>1 DEF PageInv, Waiting
<1> QED BY <1>2, <1>3, <1>4 DEF PageInv, PageShowsItsHandoff, ConfirmedAsReviewed

LEMMA RefuseKeeps ==
  ASSUME PageInv, NEW n \in DOMAIN requests, Refuse(n), UNCHANGED <<world, changes, handoffs, page, seen>>
  PROVE  PageInv'
<1> USE PageIsTyped
<1>1. requests[n] \in Requests /\ RequestTrue(requests[n])
  BY DEF PageInv, RequestsTrue
<1> DEFINE r == [requests[n] EXCEPT !.at = "error", !.record = NoRecord, !.handoff = requests[n].handoff]
<1>2. requests' = [requests EXCEPT ![n] = r]
  BY DEF Refuse, End
<1>3. /\ r \in Requests /\ r.asks = requests[n].asks /\ r.choice = requests[n].choice
      /\ r.handoff = requests[n].handoff /\ r.at = "error"
  <2>1. PICK q \in Requests : q = requests[n]
    BY <1>1
  <2>2. NoRecord \in Versions /\ "error" \in Stages
    BY DEF NoRecord, Versions, Stages
  <2>3. r = [q EXCEPT !.at = "error", !.record = NoRecord]
    BY <2>1 DEF Requests
  <2> QED BY <2>1, <2>2, <2>3 DEF Requests
<1> HIDE DEF r
<1>4. RequestTrue(r)
  BY <1>1, <1>3 DEF RequestTrue
<1> QED BY <1>2, <1>3, <1>4, RequestKeeps

LEMMA GoKeeps ==
  ASSUME PageInv, NEW n \in DOMAIN requests, NEW at \in Stages, Go(n, at), UNCHANGED <<world, changes, handoffs, page, seen>>,
         requests[n].asks = "prepare" => at # "ok",
         requests[n].asks = "confirm" =>
           /\ at = "compared" => \E w \in seen[requests[n].handoff] : w.files = handoffs[requests[n].handoff].files
           /\ at # "ok"
  PROVE  PageInv'
<1> USE PageIsTyped
<1>1. requests[n] \in Requests /\ RequestTrue(requests[n])
  BY DEF PageInv, RequestsTrue
<1> DEFINE r == [requests[n] EXCEPT !.at = at]
<1>2. requests' = [requests EXCEPT ![n] = r]
  BY DEF Go
<1>3. /\ r \in Requests /\ r.asks = requests[n].asks /\ r.choice = requests[n].choice
      /\ r.handoff = requests[n].handoff /\ r.at = at
  BY <1>1 DEF Requests
<1> HIDE DEF r
<1>4. RequestTrue(r)
  BY <1>1, <1>3 DEF RequestTrue, Requests
<1> QED BY <1>2, <1>3, <1>4, RequestKeeps

\* A preparation reads, captures and reviews.
LEMMA PreparationKeeps ==
  ASSUME PageInv, NEW n \in DOMAIN requests, ReadContext(n) \/ CaptureFiles(n) \/ Review(n)
  PROVE  PageInv'
<1> USE PageIsTyped
<1>1. /\ UNCHANGED <<world, changes, handoffs, page, seen>> /\ requests[n].asks = "prepare"
      /\ requests[n] \in Requests /\ requests[n].record \in Versions /\ RequestTrue(requests[n])
  BY DEF ReadContext, CaptureFiles, Review, At, Same, PageInv, RequestsTrue, Requests
<1>2. CASE ReadContext(n)
  <2> DEFINE r == [requests[n] EXCEPT !.record = world, !.at = "read"]
  <2>1. requests' = [requests EXCEPT ![n] = r]
    BY <1>1, <1>2 DEF ReadContext, Requests
  <2>2. r \in Requests /\ r.asks = "prepare" /\ r.choice = requests[n].choice /\ r.at = "read"
    BY <1>1 DEF Requests, Stages
  <2> HIDE DEF r
  <2> QED BY <1>1, <2>1, <2>2, RequestKeeps DEF RequestTrue
<1>3. CASE CaptureFiles(n)
  <2> DEFINE v == [requests[n].record EXCEPT !.files = world.files]
             r == [requests[n] EXCEPT !.record = v, !.at = "captured"]
  <2>1. v \in Versions
    BY <1>1 DEF Versions
  <2>2. requests' = [requests EXCEPT ![n] = r]
    BY <1>1, <1>3 DEF CaptureFiles, Requests
  <2>3. r \in Requests /\ r.asks = "prepare" /\ r.choice = requests[n].choice /\ r.at = "captured"
    <3> HIDE DEF v
    <3> QED BY <1>1, <2>1 DEF Requests, Stages
  <2> HIDE DEF r
  <2> QED BY <1>1, <2>2, <2>3, RequestKeeps DEF RequestTrue
<1>4. CASE Review(n)
  <2>1. CASE Go(n, "reviewed")
    BY <1>1, <2>1, GoKeeps DEF Stages
  <2>2. CASE Refuse(n)
    BY <1>1, <2>2, RefuseKeeps
  <2> QED BY <1>4, <2>1, <2>2 DEF Review
<1> QED BY <1>2, <1>3, <1>4

\* The stored handoff is for the choices of the request that made it.
LEMMA SaveHandoffKeeps == ASSUME PageInv, NEW n \in DOMAIN requests, SaveHandoff(n) PROVE PageInv'
<1> USE PageIsTyped
<1>1. /\ UNCHANGED <<world, changes, page>> /\ requests[n].asks = "prepare"
      /\ requests[n] \in Requests /\ requests[n].record \in Versions
  BY DEF SaveHandoff, At, Requests
<1>2. CASE ~StillCurrent(requests[n].record)
  BY <1>1, <1>2, RefuseKeeps DEF SaveHandoff
<1>3. CASE StillCurrent(requests[n].record)
  <2> DEFINE new == [record |-> requests[n].record.record, files |-> requests[n].record.files,
                     choice |-> requests[n].choice, state |-> "prepared", expired |-> FALSE, asReviewed |-> TRUE]
             k == Len(handoffs) + 1
             r == [requests[n] EXCEPT !.at = "ok", !.record = NoRecord, !.handoff = k]
  <2>1. handoffs' = Append(handoffs, new) /\ seen' = Append(seen, {}) /\ requests' = [requests EXCEPT ![n] = r]
    BY <1>3 DEF SaveHandoff, End
  <2>2. new \in Handoffs /\ new.choice = requests[n].choice /\ new.state = "prepared" /\ new.asReviewed
    BY <1>1 DEF Handoffs, States, Versions, Requests
  <2>3. /\ r \in Requests /\ r.asks = "prepare" /\ r.choice = requests[n].choice /\ r.at = "ok" /\ r.handoff = k
    <3>1. PICK q \in Requests : q = requests[n] /\ q.asks = "prepare"
      BY <1>1
    <3>2. NoRecord \in Versions /\ "ok" \in Stages /\ k \in Nat
      BY DEF NoRecord, Versions, Stages
    <3>3. r = [q EXCEPT !.at = "ok", !.record = NoRecord, !.handoff = k]
      BY <3>1
    <3> HIDE DEF k, r
    <3> QED BY <3>1, <3>2, <3>3 DEF Requests
  <2> HIDE DEF new, r
  <2>4. /\ handoffs' \in Seq(Handoffs) /\ Len(handoffs') = k /\ DOMAIN handoffs' = 1 .. k /\ handoffs'[k] = new
        /\ \A h \in DOMAIN handoffs : h \in DOMAIN handoffs' /\ handoffs'[h] = handoffs[h] /\ seen'[h] = seen[h]
        /\ seen' \in Seq(SUBSET Versions) /\ Len(seen') = k /\ DOMAIN seen' = 1 .. k /\ seen'[k] = {}
    BY <2>1, <2>2 DEF PageInv, PageTyped
  <2>5. /\ requests' \in Seq(Requests) /\ DOMAIN requests' = DOMAIN requests /\ requests'[n] = r
        /\ \A m \in DOMAIN requests : m # n => requests'[m] = requests[m]
    BY <2>1, <2>3 DEF PageInv, PageTyped
  <2>6. PageTyped' /\ Watched'
    <3>1. PageTyped'
      BY <1>1, <2>4, <2>5 DEF PageInv, PageTyped
    <3>2. ASSUME NEW h \in 1 .. k, seen'[h] # {} PROVE world \in seen'[h]
      <4>1. h \in DOMAIN handoffs
        BY <2>4, <3>2
      <4> QED BY <2>4, <3>2, <4>1 DEF PageInv, Watched
    <3> QED BY <1>1, <2>4, <3>1, <3>2 DEF Watched
  <2>7. RequestsTrue'
    <3>1. ASSUME NEW m \in DOMAIN requests PROVE RequestTrue(requests[m])'
      <4>1. CASE m = n
        BY <2>2, <2>3, <2>4, <2>5, <4>1 DEF RequestTrue
      <4>2. CASE m # n
        <5>1. RequestTrue(requests[m])
          BY DEF PageInv, RequestsTrue
        <5> QED BY <2>4, <2>5, <4>2, <5>1 DEF RequestTrue
      <4> QED BY <4>1, <4>2
    <3> QED BY <2>5, <3>1 DEF RequestsTrue
  <2>8. Waiting'
    BY <1>1, <2>3, <2>5 DEF PageInv, Waiting
  <2>9. PageShowsItsHandoff' /\ page'.shows.handoff \in 0 .. Len(handoffs')
    BY <1>1, <2>4 DEF PageInv, PageShowsItsHandoff
  <2>10. ConfirmedAsReviewed'
    <3>1. ASSUME NEW h \in 1 .. k PROVE handoffs'[h].asReviewed /\ (handoffs'[h].state # "prepared" => seen'[h] # {})
      <4>1. h \in DOMAIN handoffs \/ h = k
        OBVIOUS
      <4> QED BY <2>2, <2>4, <4>1 DEF PageInv, ConfirmedAsReviewed
    <3> QED BY <2>4, <3>1 DEF ConfirmedAsReviewed
  <2> QED BY <2>6, <2>7, <2>8, <2>9, <2>10 DEF PageInv
<1> QED BY <1>2, <1>3

\* The files are compared while the text is ticked, so what they were is noted.
LEMMA ComparisonKeeps ==
  ASSUME PageInv, NEW n \in DOMAIN requests, ReadHandoff(n) \/ CompareFiles(n)
  PROVE  PageInv'
<1> USE PageIsTyped
<1> DEFINE h == requests[n].handoff
<1>1. /\ UNCHANGED <<world, changes, handoffs, page, seen>> /\ requests[n].asks = "confirm"
      /\ h \in DOMAIN handoffs /\ world \in seen[h]
  BY DEF ReadHandoff, CompareFiles, At, Same, PageInv, RequestsTrue, RequestTrue, Watched
<1>2. CASE Refuse(n)
  BY <1>1, <1>2, RefuseKeeps
<1>3. CASE Go(n, "read")
  BY <1>1, <1>3, GoKeeps DEF Stages
<1>4. CASE Go(n, "compared") /\ handoffs[h].files = world.files
  <2>1. \E w \in seen[h] : w.files = handoffs[h].files
    BY <1>1, <1>4
  <2> QED BY <1>1, <1>4, <2>1, GoKeeps DEF Stages
<1> QED BY <1>2, <1>3, <1>4 DEF ReadHandoff, CompareFiles

\* What is confirmed was ticked, and holds.
LEMMA ConfirmHandoffKeeps == ASSUME PageInv, NEW n \in DOMAIN requests, ConfirmHandoff(n) PROVE PageInv'
<1> USE PageIsTyped
<1> DEFINE h == requests[n].handoff
<1>1. /\ UNCHANGED <<world, changes, page, seen>> /\ requests[n].asks = "confirm" /\ requests[n].at = "compared"
      /\ requests[n] \in Requests /\ h \in DOMAIN handoffs /\ seen[h] # {} /\ handoffs[h] \in Handoffs
      /\ \E w \in seen[h] : w.files = handoffs[h].files
  BY DEF ConfirmHandoff, At, Same, PageInv, RequestsTrue, RequestTrue
<1>2. CASE ~MayConfirm(h)
  BY <1>1, <1>2, RefuseKeeps DEF ConfirmHandoff
<1>3. CASE MayConfirm(h)
  <2> DEFINE new == [handoffs[h] EXCEPT !.state = "confirmed", !.asReviewed = handoffs[h].asReviewed /\ AsReviewed(h)]
             r == [requests[n] EXCEPT !.at = "ok"]
  <2>1. AsReviewed(h) /\ handoffs[h].asReviewed
    BY <1>1, <1>3 DEF MayConfirm, AsReviewed, PageInv, ConfirmedAsReviewed
  <2>2. handoffs' = [handoffs EXCEPT ![h] = new] /\ requests' = [requests EXCEPT ![n] = r]
    BY <1>1, <1>3 DEF ConfirmHandoff, Go, Handoffs
  <2>3. /\ new \in Handoffs /\ new.choice = handoffs[h].choice /\ new.files = handoffs[h].files
        /\ new.asReviewed /\ new.state = "confirmed"
    BY <1>1, <2>1 DEF Handoffs, States
  <2>4. /\ r \in Requests /\ r.asks = "confirm" /\ r.choice = requests[n].choice /\ r.handoff = h /\ r.at = "ok"
    BY <1>1 DEF Requests, Stages
  <2> HIDE DEF new, r
  <2>5. /\ handoffs' \in Seq(Handoffs) /\ Len(handoffs') = Len(handoffs) /\ DOMAIN handoffs' = DOMAIN handoffs
        /\ handoffs'[h] = new /\ \A g \in DOMAIN handoffs : g # h => handoffs'[g] = handoffs[g]
    BY <1>1, <2>2, <2>3 DEF PageInv, PageTyped
  <2>6. \A g \in DOMAIN handoffs :
          /\ handoffs'[g].choice = handoffs[g].choice /\ handoffs'[g].files = handoffs[g].files
          /\ handoffs[g].state \in {"confirmed", "launching"} => handoffs'[g].state \in {"confirmed", "launching"}
    BY <2>3, <2>5
  <2>7. /\ requests' \in Seq(Requests) /\ DOMAIN requests' = DOMAIN requests /\ requests'[n] = r
        /\ \A m \in DOMAIN requests : m # n => requests'[m] = requests[m]
    BY <2>2, <2>4 DEF PageInv, PageTyped
  <2>8. PageTyped' /\ Watched'
    BY <1>1, <2>5, <2>7 DEF PageInv, PageTyped, Watched
  <2>9. RequestsTrue'
    <3>1. ASSUME NEW m \in DOMAIN requests PROVE RequestTrue(requests[m])'
      <4>1. CASE m = n
        BY <1>1, <2>3, <2>4, <2>5, <2>7, <4>1 DEF RequestTrue
      <4>2. CASE m # n
        <5>1. RequestTrue(requests[m])
          BY DEF PageInv, RequestsTrue
        <5> QED BY <1>1, <2>5, <2>6, <2>7, <4>2, <5>1 DEF RequestTrue
      <4> QED BY <4>1, <4>2
    <3> QED BY <2>7, <3>1 DEF RequestsTrue
  <2>10. Waiting' /\ page'.shows.handoff \in 0 .. Len(handoffs')
    BY <1>1, <2>4, <2>5, <2>7 DEF PageInv, Waiting
  <2>11. PageShowsItsHandoff' /\ ConfirmedAsReviewed'
    BY <1>1, <2>3, <2>5, <2>6 DEF PageInv, PageShowsItsHandoff, ConfirmedAsReviewed
  <2> QED BY <2>8, <2>9, <2>10, <2>11 DEF PageInv
<1> QED BY <1>2, <1>3

\* An answer shows what the page asked for, or nothing.
LEMMA AnsweredKeeps == ASSUME PageInv, NEW n \in DOMAIN requests, Answered(n) PROVE PageInv'
<1> USE PageIsTyped
<1>1. /\ page.busy = n /\ n # 0 /\ UNCHANGED <<world, changes, handoffs, requests, seen>>
      /\ requests[n] \in Requests /\ RequestTrue(requests[n]) /\ requests[n].choice = page.choice
      /\ requests[n].asks = "prepare" => page.shows = NoShow
      /\ requests[n].asks = "confirm" => requests[n].handoff = page.shows.handoff
  BY DEF Answered, PageInv, Waiting, RequestsTrue
<1>2. CASE page' = [page EXCEPT !.busy = 0]
  <2>1. /\ page' \in [choice : Choices, busy : Nat, shows : Shows] /\ page'.busy = 0
        /\ page'.shows = page.shows /\ page'.choice = page.choice
    BY <1>2
  <2>2. Waiting' /\ PageShowsItsHandoff' /\ page'.shows.handoff \in 0 .. Len(handoffs)
    BY <1>1, <2>1 DEF PageInv, Waiting, PageShowsItsHandoff
  <2> QED BY <1>1, <2>1, <2>2, PageKeeps
<1>3. CASE requests[n].at = "ok" /\ requests[n].asks = "prepare"
           /\ page' = [page EXCEPT !.busy = 0, !.shows = [page.shows EXCEPT !.handoff = requests[n].handoff]]
  <2> DEFINE shows == [page.shows EXCEPT !.handoff = requests[n].handoff]
  <2>1. shows \in Shows /\ shows.handoff = requests[n].handoff /\ shows.ack = FALSE /\ shows.command = 0
    BY <1>1, <1>3, OpenedIsTyped DEF Shows, Requests
  <2> HIDE DEF shows
  <2>2. /\ page' \in [choice : Choices, busy : Nat, shows : Shows] /\ page'.busy = 0
        /\ page'.shows = shows /\ page'.choice = page.choice
    BY <1>3, <2>1 DEF shows
  <2>3. requests[n].handoff \in DOMAIN handoffs /\ handoffs[requests[n].handoff].choice = page.choice
    BY <1>1, <1>3 DEF RequestTrue
  <2>4. Waiting' /\ PageShowsItsHandoff' /\ page'.shows.handoff \in 0 .. Len(handoffs)
    BY <1>1, <2>1, <2>2, <2>3 DEF Waiting, PageShowsItsHandoff
  <2> QED BY <1>1, <2>2, <2>4, PageKeeps
<1>4. CASE requests[n].at = "ok" /\ requests[n].asks = "confirm"
           /\ page' = [page EXCEPT !.busy = 0, !.shows = [page.shows EXCEPT !.command = requests[n].handoff]]
  <2> DEFINE shows == [page.shows EXCEPT !.command = requests[n].handoff]
  <2>1. /\ shows \in Shows /\ shows.handoff = page.shows.handoff /\ shows.ack = page.shows.ack
        /\ shows.command = page.shows.handoff
    BY <1>1, <1>4 DEF Shows, Requests
  <2> HIDE DEF shows
  <2>2. /\ page' \in [choice : Choices, busy : Nat, shows : Shows] /\ page'.busy = 0
        /\ page'.shows = shows /\ page'.choice = page.choice
    BY <1>4, <2>1 DEF shows
  <2>3. handoffs[page.shows.handoff].state \in {"confirmed", "launching"}
    BY <1>1, <1>4 DEF RequestTrue
  <2>4. Waiting' /\ PageShowsItsHandoff' /\ page'.shows.handoff \in 0 .. Len(handoffs)
    BY <1>1, <2>1, <2>2, <2>3 DEF PageInv, Waiting, PageShowsItsHandoff
  <2> QED BY <1>1, <2>2, <2>4, PageKeeps
<1> QED
  <2>1. requests[n].asks \in {"prepare", "confirm"}
    BY <1>1 DEF Requests
  <2> QED BY <1>2, <1>3, <1>4, <2>1 DEF Answered

-----------------------------------------------------------------------------
(* The theorems.                                                             *)

LEMMA PageInitially == PageInit => PageInv
<1> SUFFICES ASSUME PageInit PROVE PageInv
  OBVIOUS
<1>1. PICK c \in Choices : page = Opened(c)
  BY DEF PageInit
<1>2. /\ world \in Versions /\ changes = 0 /\ handoffs = << >> /\ requests = << >> /\ seen = << >>
  BY DEF PageInit, Versions
<1> QED
  BY <1>1, <1>2, OpenedIsTyped
  DEF PageInv, PageTyped, Watched, RequestsTrue, Waiting, PageShowsItsHandoff, ConfirmedAsReviewed

LEMMA PageStep == PageInv /\ [PageNext]_pageVars => PageInv'
<1> SUFFICES ASSUME PageInv, [PageNext]_pageVars PROVE PageInv'
  OBVIOUS
<1>1. CASE UNCHANGED pageVars
  BY <1>1 DEF pageVars, PageInv, PageTyped, Watched, RequestsTrue, RequestTrue, Waiting, PageShowsItsHandoff,
              ConfirmedAsReviewed
<1>2. ASSUME NEW c \in Choices, Choose(c) PROVE PageInv'
  BY <1>2, ChooseKeeps
<1>3. ASSUME NEW h \in DOMAIN handoffs, Expire(h) \/ Launch(h) PROVE PageInv'
  BY <1>3, ExpireOrLaunchKeeps
<1>4. ASSUME NEW n \in DOMAIN requests,
             \/ ReadContext(n) \/ CaptureFiles(n) \/ Review(n) \/ SaveHandoff(n)
             \/ ReadHandoff(n) \/ CompareFiles(n) \/ ConfirmHandoff(n) \/ Answered(n)
      PROVE  PageInv'
  BY <1>4, PreparationKeeps, SaveHandoffKeeps, ComparisonKeeps, ConfirmHandoffKeeps, AnsweredKeeps
<1> QED
  BY <1>1, <1>2, <1>3, <1>4, ChangeKeeps, PrepareKeeps, SeeExpiredKeeps, TickKeeps, AskToConfirmKeeps, RemountKeeps
  DEF PageNext

\* The inductive invariant of the page and its requests.
THEOREM PageInvariance == PageSpec => []PageInv
BY PageInitially, PageStep, PTL DEF PageSpec

\* The page shows a preview, a tick and a command only of the handoff made for
\* its choices, and only a text that was ticked and that still held is confirmed
\* (HandoffPreview, confirmHandoff, HandoffStore.confirm), whatever is repeated.
THEOREM ReviewBindsConfirmation == PageSpec => []HandoffAsReviewed
<1>1. PageInv => HandoffAsReviewed
  BY DEF PageInv, HandoffAsReviewed
<1> QED BY <1>1, PageInvariance, PTL
--------------------------------------------------------------------------------
(* The pages of tasks and their drafts. *)

Homes == Databases \cup {Nothing}
DraftRows == [task : TaskIds \cup {Nothing}, base : Nat, home : Homes, strayed : BOOLEAN]
DataRows == [db : Homes, revision : Nat, request : Nat]
EditorRows == [base : Nat, home : Homes, strayed : BOOLEAN, dirty : BOOLEAN, busy : BOOLEAN]
EditRows == [base : Nat, home : Homes, strayed : BOOLEAN]
TabRows ==
  [client : Nat, task : TaskIds \cup {Nothing}, data : DataRows, loading : BOOLEAN, request : Nat, visit : Nat,
   expired : BOOLEAN, editing : BOOLEAN, editor : EditorRows, recovered : DraftRows, identity : Homes,
   envelope : [draft : DraftRows, key : Homes, origin : Origins \cup {Nothing}]]

\* What is edited belongs to a database, unless it strayed there.
AtHome(row, d) == row.strayed \/ row.home = d

\* What holds of the row of an open tab, whose client is a service.  Data of
\* another database is shown only until the answer of this one, and opens no
\* editor meanwhile.
OpenRow(p) ==
  LET home == Database(p.client) IN
    /\ p \in TabRows /\ p.client \in DOMAIN services
    /\ p.data # NoData => \/ p.data.db = home /\ (~p.loading => p.data.request = p.request)
                          \/ p.loading /\ (p.editing => p.editor # NoEditor)
    /\ p.task = Nothing => p.data = NoData /\ p.request = 0
    /\ p.editor # NoEditor => AtHome(p.editor, home)
    /\ p.recovered # NoDraft => AtHome(p.recovered, home)
    /\ p.envelope # NoSeal => AtHome(p.envelope.draft, p.envelope.key) /\ p.envelope.draft.task # Nothing

\* React has rendered it: there is an editor only where a task is shown, and
\* there always is where it is edited.
Mounted(p) ==
  /\ p.editor # NoEditor => p.data # NoData
  /\ p.data # NoData /\ p.editing => p.editor # NoEditor

TabTrue(p) == p = Closed \/ (OpenRow(p) /\ Mounted(p))

Refusals == {"UNAUTHORIZED", "NETWORK_ERROR"}
LoadRows ==
  [tab : Tabs, client : Nat, task : TaskIds, number : Nat,
   answer : {"none", "ok", "STORAGE_BUSY"} \cup Refusals, data : DataRows]
SaveRows ==
  [tab : Tabs, client : Nat, task : TaskIds, visit : Nat, expected : Nat, base : Nat, home : Homes,
   strayed : BOOLEAN, answer : {"none", "ok", "refused"} \cup Refusals]

\* An answer is of the service and the number of its request; one that would be
\* taken comes from the database that the tab is connected to.
LoadTrue(q) ==
  /\ q \in LoadRows /\ q.client \in DOMAIN services /\ q.number \in 1 .. asked
  /\ q.data # NoData => q.data.db = Database(q.client) /\ q.data.request = q.number
  /\ IsOpen(q.tab)
  /\ Delivered(q) => Database(Client(q.tab)) = Database(q.client)

\* A save carries the revision its editor was opened on.
SaveTrue(s) ==
  /\ s \in SaveRows /\ s.client \in DOMAIN services
  /\ s.expected = s.base /\ AtHome(s, Database(s.client))
  /\ IsOpen(s.tab)

ServicesTrue == services \in Seq([db : Databases, origin : Origins, alive : BOOLEAN])

OnRevision(edit, r, d) == edit.base = r - 1 /\ AtHome(edit, d)

\* The second half of DraftsStayHome.
StoreTrue ==
  /\ store \in [Databases -> [TaskIds -> Seq(EditRows)]]
  /\ \A d \in Databases, t \in TaskIds : \A r \in DOMAIN store[d][t] :
       store[d][t][r] # Elsewhere => OnRevision(store[d][t][r], r, d)

WebInv ==
  /\ ServicesTrue /\ StoreTrue /\ asked \in Nat
  /\ tabs \in [Tabs -> TabRows] /\ \A k \in Tabs : TabTrue(tabs[k])
  /\ \A q \in loads : LoadTrue(q)
  /\ \A s \in saves : SaveTrue(s)

-----------------------------------------------------------------------------
(* Rows.                                                                     *)

LEMMA ServiceRow ==
  ASSUME ServicesTrue, NEW s \in DOMAIN services
  PROVE  /\ services[s] \in [db : Databases, origin : Origins, alive : BOOLEAN]
         /\ Database(s) \in Databases /\ Database(s) = services[s].db
<1> DEFINE ServiceRows == [db : Databases, origin : Origins, alive : BOOLEAN]
<1>1. services \in Seq(ServiceRows)
  BY DEF ServicesTrue
<1>2. services[s] \in ServiceRows
  <2> HIDE DEF ServiceRows
  <2> QED  BY <1>1
<1> QED  BY <1>2 DEF Database

LEMMA ClosedRow == Closed \in TabRows /\ Closed.client = 0
BY DEF Closed, TabRows, NoData, NoEditor, NoDraft, NoSeal, DataRows, EditorRows, DraftRows, Homes

LEMMA OpenTab ==
  ASSUME WebInv, NEW k \in Tabs, IsOpen(k)
  PROVE  OpenRow(tabs[k]) /\ Mounted(tabs[k])
BY ClosedRow DEF WebInv, TabTrue, IsOpen, Client

\* Rendering changes the editor alone.
LEMMA RenderedRow ==
  ASSUME NEW p, OpenRow(p), ServicesTrue
  PROVE  /\ TabTrue(Rendered(p)) /\ Rendered(p) \in TabRows
         /\ Rendered(p).client = p.client /\ Rendered(p).request = p.request
<1> DEFINE editor == IF ~(Shown(p) /\ (p.editing \/ Recovering(p))) THEN NoEditor
                     ELSE IF p.editor = NoEditor THEN EditorOf(p) ELSE p.editor
           r == Rendered(p)
<1>1. p \in TabRows
  BY DEF OpenRow
<1>2. Database(p.client) \in Databases
  BY ServiceRow DEF OpenRow
<1>3. NoEditor \in EditorRows
  BY DEF NoEditor, EditorRows, Homes
<1>4. /\ EditorOf(p) \in EditorRows
      /\ Shown(p) /\ p.editor = NoEditor /\ (p.editing \/ Recovering(p))
           => AtHome(EditorOf(p), Database(p.client)) /\ EditorOf(p) # NoEditor
  <2>1. p.recovered \in DraftRows /\ p.data \in DataRows
    BY <1>1 DEF TabRows
  <2>2. CASE Recovering(p)
    <3>1. EditorOf(p) = [base |-> p.recovered.base, home |-> p.recovered.home, strayed |-> p.recovered.strayed,
                         dirty |-> TRUE, busy |-> FALSE]
      BY <2>2 DEF EditorOf
    <3>2. AtHome(p.recovered, Database(p.client))
      BY <2>2 DEF Recovering, OpenRow
    <3>3. EditorOf(p) # NoEditor /\ EditorOf(p) \in EditorRows
      BY <2>1, <3>1 DEF NoEditor, DraftRows, EditorRows
    <3> QED  BY <3>1, <3>2, <3>3 DEF AtHome
  <2>3. CASE ~Recovering(p)
    <3>1. EditorOf(p) = [base |-> p.data.revision, home |-> p.data.db, strayed |-> FALSE, dirty |-> FALSE, busy |-> FALSE]
      BY <2>3 DEF EditorOf
    <3>2. EditorOf(p) \in EditorRows
      BY <2>1, <3>1 DEF DataRows, EditorRows
    <3>3. ASSUME Shown(p), p.editor = NoEditor, p.editing PROVE p.data.db = Database(p.client)
      BY <3>3 DEF OpenRow, Shown
    <3>4. ASSUME p.data.db = Database(p.client) PROVE EditorOf(p) # NoEditor
      <4>1. p.data.db # Nothing
        BY <1>2, <3>4, WebAssumption
      <4> QED  BY <3>1, <4>1 DEF NoEditor
    <3> QED  BY <2>3, <3>1, <3>2, <3>3, <3>4 DEF AtHome
  <2> QED  BY <2>2, <2>3
<1>5. /\ editor \in EditorRows /\ (editor # NoEditor => Shown(p) /\ AtHome(editor, Database(p.client)))
      /\ Shown(p) /\ p.editing => editor # NoEditor
  <2>1. p.editor \in EditorRows
    BY <1>1 DEF TabRows
  <2> QED  BY <2>1, <1>3, <1>4 DEF OpenRow
<1>6. r = [p EXCEPT !.editor = editor]
  BY DEF Rendered
<1> HIDE DEF editor, r
<1>7. /\ r \in TabRows /\ r.client = p.client /\ r.task = p.task /\ r.data = p.data /\ r.loading = p.loading
      /\ r.request = p.request /\ r.recovered = p.recovered /\ r.editing = p.editing
      /\ r.envelope = p.envelope /\ r.editor = editor
  BY <1>1, <1>5, <1>6 DEF TabRows
<1>8. OpenRow(r) /\ Mounted(r)
  BY <1>5, <1>7 DEF OpenRow, Mounted, Shown
<1> QED  BY <1>7, <1>8 DEF TabTrue, r

\* A request for another answer: the row waits for a number nobody has.
LEMMA AskingRow ==
  ASSUME NEW p, OpenRow(p), p.task # Nothing, asked \in Nat
  PROVE  OpenRow(Asking(p)) /\ Asking(p).client = p.client /\ Asking(p).request = asked + 1
<1>1. p \in TabRows
  BY DEF OpenRow
<1>2. Asking(p) \in TabRows
  <2>1. \A n \in Nat : [p EXCEPT !.request = n] \in TabRows
    BY <1>1 DEF TabRows
  <2>2. \A r \in TabRows : [r EXCEPT !.loading = TRUE] \in TabRows
    BY DEF TabRows
  <2>3. asked + 1 \in Nat
    OBVIOUS
  <2>4. Asking(p) = [[p EXCEPT !.request = asked + 1] EXCEPT !.loading = TRUE]
    BY DEF Asking
  <2> QED  BY <2>1, <2>2, <2>3, <2>4
<1>3. /\ Asking(p).client = p.client /\ Asking(p).request = asked + 1
      /\ Asking(p).loading /\ Asking(p).task = p.task /\ Asking(p).data = p.data
      /\ Asking(p).editor = p.editor /\ Asking(p).recovered = p.recovered
      /\ Asking(p).editing = p.editing /\ Asking(p).envelope = p.envelope
  BY <1>1 DEF Asking, TabRows
<1> QED  BY <1>2, <1>3 DEF OpenRow

-----------------------------------------------------------------------------
(* What the steps of a tab have in common.                                   *)

\* Nobody takes an answer of another database: the tab is where it was, or it
\* has asked nothing yet.
SameConnection(k, p) ==
  p.request = 0 \/ (IsOpen(k) /\ p.request = tabs[k].request /\ Database(p.client) = Database(Client(k)))

LEMMA SetKeeps ==
  ASSUME WebInv, NEW k \in Tabs, NEW p, OpenRow(p), Set(k, p), SameConnection(k, p),
         UNCHANGED <<services, store, asked>>, loads' \subseteq loads,
         \A s \in saves' : s \in saves \/ SaveTrue(s)
  PROVE  WebInv'
<1> USE DEF WebInv
<1>1. /\ TabTrue(Rendered(p)) /\ Rendered(p) \in TabRows
      /\ Rendered(p).client = p.client /\ Rendered(p).request = p.request
  BY RenderedRow
<1>2. /\ tabs' \in [Tabs -> TabRows]
      /\ \A j \in Tabs : tabs'[j] = IF j = k THEN Rendered(p) ELSE tabs[j]
  BY <1>1 DEF Set
<1>3. \A j \in Tabs : TabTrue(tabs[j])'
  <2>1. \A j \in Tabs : TabTrue(tabs'[j])
    BY <1>1, <1>2
  <2> QED  BY <2>1 DEF TabTrue, OpenRow, Database
<1>4. p.client # 0
  BY DEF OpenRow, ServicesTrue
<1>5. \A j \in Tabs : IsOpen(j) => IsOpen(j)'
  BY <1>1, <1>2, <1>4 DEF IsOpen, Client
<1>6. ASSUME NEW q \in loads' PROVE LoadTrue(q)'
  <2>1. LoadTrue(q)
    OBVIOUS
  <2>2. q.tab \in Tabs /\ q.number # 0
    BY <2>1 DEF LoadTrue, LoadRows
  <2>3. CASE q.tab # k
    BY <1>2, <1>5, <2>1, <2>2, <2>3 DEF LoadTrue, Delivered, Client, Database, IsOpen
  <2>4. CASE q.tab = k
    <3>1. tabs'[k].request = p.request /\ tabs'[k].client = p.client
      BY <1>1, <1>2
    <3>2. Delivered(q)' => Delivered(q) /\ Database(p.client) = Database(Client(k))
      BY <2>2, <2>4, <3>1 DEF SameConnection, Delivered
    <3> QED  BY <1>5, <2>1, <2>4, <3>1, <3>2 DEF LoadTrue, Client, Database
  <2> QED  BY <2>3, <2>4
<1>7. ASSUME NEW s \in saves' PROVE SaveTrue(s)'
  <2>1. SaveTrue(s) /\ s.tab \in Tabs
    BY DEF SaveTrue, SaveRows
  <2> QED  BY <1>5, <2>1 DEF SaveTrue, Database
<1>8. ServicesTrue' /\ StoreTrue' /\ asked' \in Nat
  BY DEF ServicesTrue, StoreTrue
<1> QED  BY <1>2, <1>3, <1>6, <1>7, <1>8

LEMMA LoadKeeps ==
  ASSUME WebInv, NEW k \in Tabs, NEW p, OpenRow(p), p.task # Nothing, Load(k, p),
         UNCHANGED <<services, store>>, saves' \subseteq saves
  PROVE  WebInv'
<1> USE DEF WebInv
<1> DEFINE r == Rendered(Asking(p))
           new == [tab |-> k, client |-> p.client, task |-> p.task,
                   number |-> asked + 1, answer |-> "none", data |-> NoData]
<1>1. /\ TabTrue(r) /\ r \in TabRows /\ r.client = p.client /\ r.request = asked + 1
  BY RenderedRow, AskingRow
<1>2. asked' = asked + 1 /\ tabs' = [tabs EXCEPT ![k] = r] /\ loads' = loads \cup {new}
  BY DEF Load
<1> HIDE DEF r
<1>3. /\ tabs' \in [Tabs -> TabRows] /\ \A j \in Tabs : tabs'[j] = IF j = k THEN r ELSE tabs[j]
  BY <1>1, <1>2
<1>4. \A j \in Tabs : TabTrue(tabs[j])'
  <2>1. \A j \in Tabs : TabTrue(tabs'[j])
    BY <1>1, <1>3
  <2> QED  BY <2>1 DEF TabTrue, OpenRow, Database
<1>5. p.client # 0 /\ p.client \in DOMAIN services
  BY DEF OpenRow, ServicesTrue
<1>6. \A j \in Tabs : IsOpen(j) => IsOpen(j)'
  BY <1>1, <1>3, <1>5 DEF IsOpen, Client
<1>7. ASSUME NEW q, q = new PROVE LoadTrue(q)'
  <2>1. NoData \in DataRows
    BY DEF NoData, DataRows, Homes
  <2>2. IsOpen(k)' /\ Client(k)' = p.client
    BY <1>1, <1>3, <1>5 DEF IsOpen, Client
  <2>3. /\ q.tab = k /\ q.client = p.client /\ q.number = asked + 1 /\ q.data = NoData
    BY <1>7
  <2>4. q.number \in 1 .. asked'
    BY <1>2, <2>3
  <2>5. p.client \in Nat /\ p.task \in TaskIds
    BY DEF OpenRow, TabRows
  <2>6. q \in LoadRows
    BY <1>7, <2>1, <2>5 DEF LoadRows
  <2> QED  BY <1>5, <2>2, <2>3, <2>4, <2>6 DEF LoadTrue, Database
<1>8. ASSUME NEW q \in loads PROVE LoadTrue(q)'
  <2>1. LoadTrue(q)
    OBVIOUS
  <2>2. q.tab \in Tabs /\ q.number \in 1 .. asked
    BY <2>1 DEF LoadTrue, LoadRows
  <2>3. CASE q.tab # k
    BY <1>2, <1>3, <1>6, <2>1, <2>2, <2>3 DEF LoadTrue, Delivered, Client, Database, IsOpen
  <2>4. CASE q.tab = k
    <3>1. tabs'[k].request = asked + 1
      BY <1>1, <1>3
    <3>2. ~Delivered(q)'
      BY <2>2, <2>4, <3>1 DEF Delivered
    <3> QED  BY <1>2, <1>6, <2>1, <2>2, <3>2 DEF LoadTrue, Database
  <2> QED  BY <2>3, <2>4
<1>9. ASSUME NEW s \in saves' PROVE SaveTrue(s)'
  <2>1. SaveTrue(s) /\ s.tab \in Tabs
    BY DEF SaveTrue, SaveRows
  <2> QED  BY <1>6, <2>1 DEF SaveTrue, Database
<1>10. ServicesTrue' /\ StoreTrue' /\ asked' \in Nat
  <2>1. asked' \in Nat
    BY <1>2
  <2> QED  BY <2>1 DEF ServicesTrue, StoreTrue
<1>11. \A q \in loads' : LoadTrue(q)'
  BY <1>2, <1>7, <1>8
<1> QED  BY <1>3, <1>4, <1>9, <1>10, <1>11

-----------------------------------------------------------------------------
(* Services and what they store.                                             *)

\* A service stays the one of its database.
LEMMA ServicesKeep ==
  ASSUME WebInv, ServicesTrue', UNCHANGED <<store, tabs, loads, saves, asked>>,
         \A s \in DOMAIN services : s \in DOMAIN services' /\ services'[s].db = services[s].db
  PROVE  WebInv'
<1> USE DEF WebInv
<1>1. \A s \in DOMAIN services : Database(s)' = Database(s)
  BY DEF Database
<1>2. \A k \in Tabs : TabTrue(tabs[k])'
  <2>1. ASSUME NEW k \in Tabs, OpenRow(tabs[k]) PROVE OpenRow(tabs[k])'
    <3>1. tabs[k].client \in DOMAIN services
      BY <2>1 DEF OpenRow
    <3> QED  BY <1>1, <2>1, <3>1 DEF OpenRow
  <2> QED  BY <2>1 DEF TabTrue
<1>3. ASSUME NEW q \in loads PROVE LoadTrue(q)'
  <2>1. LoadTrue(q) /\ q.tab \in Tabs
    BY DEF LoadTrue, LoadRows
  <2>2. Client(q.tab) \in DOMAIN services
    BY <2>1, OpenTab DEF LoadTrue, OpenRow, Client
  <2> QED  BY <1>1, <2>1, <2>2 DEF LoadTrue, Delivered, IsOpen, Client
<1>4. ASSUME NEW s \in saves PROVE SaveTrue(s)'
  BY <1>1 DEF SaveTrue, IsOpen, Client
<1> QED  BY <1>2, <1>3, <1>4 DEF StoreTrue

LEMMA StopStep ==
  ASSUME WebInv, NEW s \in DOMAIN services, Stop(s)
  PROVE  WebInv'
<1> DEFINE stopped == [services[s] EXCEPT !.alive = FALSE]
<1>1. ServicesTrue
  BY DEF WebInv
<1>2. /\ stopped \in [db : Databases, origin : Origins, alive : BOOLEAN]
      /\ stopped.db = services[s].db /\ stopped.origin = services[s].origin
  BY <1>1, ServiceRow
<1>3. services' = [services EXCEPT ![s] = stopped] /\ UNCHANGED <<store, tabs, loads, saves, asked>>
  BY DEF Stop
<1> HIDE DEF stopped
<1>4. ServicesTrue' /\ \A u \in DOMAIN services : u \in DOMAIN services' /\ services'[u].db = services[u].db
  BY <1>1, <1>2, <1>3 DEF ServicesTrue
<1> QED  BY <1>3, <1>4, ServicesKeep

LEMMA StartStep ==
  ASSUME WebInv, NEW d \in Databases, NEW o \in Origins, StartService(d, o)
  PROVE  WebInv'
<1> DEFINE started == [db |-> d, origin |-> o, alive |-> TRUE]
<1>1. ServicesTrue
  BY DEF WebInv
<1>2. started \in [db : Databases, origin : Origins, alive : BOOLEAN]
  BY DEF StartService
<1>3. services' = Append(services, started) /\ UNCHANGED <<store, tabs, loads, saves, asked>>
  BY DEF StartService
<1> HIDE DEF started
<1>4. ServicesTrue' /\ \A u \in DOMAIN services : u \in DOMAIN services' /\ services'[u].db = services[u].db
  BY <1>1, <1>2, <1>3 DEF ServicesTrue
<1> QED  BY <1>3, <1>4, ServicesKeep

\* An edit is stored as a new revision of its task, after every other.
LEMMA StoreKeeps ==
  ASSUME StoreTrue, NEW d \in Databases, NEW t \in TaskIds, NEW edit \in EditRows,
         store' = [store EXCEPT ![d][t] = Append(@, edit)],
         edit = Elsewhere \/ (edit.base = LatestRevision(d, t) /\ AtHome(edit, d))
  PROVE  StoreTrue'
<1> DEFINE Rows == EditRows
           longer == Append(store[d][t], edit)
<1>1. store \in [Databases -> [TaskIds -> Seq(Rows)]]
  BY DEF StoreTrue
<1>2. store[d][t] \in Seq(Rows) /\ store[d] \in [TaskIds -> Seq(Rows)]
  BY <1>1
<1> HIDE DEF Rows
<1>3. longer \in Seq(Rows) /\ DOMAIN longer = DOMAIN store[d][t] \cup {Len(store[d][t]) + 1}
      /\ longer[Len(store[d][t]) + 1] = edit /\ \A r \in DOMAIN store[d][t] : longer[r] = store[d][t][r]
  BY <1>2 DEF Rows
<1>4. store' = [store EXCEPT ![d] = [store[d] EXCEPT ![t] = longer]]
  OBVIOUS
<1>5. Len(store[d][t]) + 1 \notin DOMAIN store[d][t] /\ Len(store[d][t]) \in Nat
  BY <1>2
<1> HIDE DEF longer
<1>6. /\ store' \in [Databases -> [TaskIds -> Seq(Rows)]]
      /\ \A e \in Databases, u \in TaskIds : store'[e][u] = IF e = d /\ u = t THEN longer ELSE store[e][u]
  <2> DEFINE row == [store[d] EXCEPT ![t] = longer]
  <2>1. /\ row \in [TaskIds -> Seq(Rows)]
        /\ \A u \in TaskIds : row[u] = IF u = t THEN longer ELSE store[d][u]
    BY <1>2, <1>3
  <2> HIDE DEF row
  <2> QED  BY <1>1, <1>4, <2>1 DEF row
<1>7. \A r \in DOMAIN longer : longer[r] # Elsewhere => OnRevision(longer[r], r, d)
  <2>1. edit # Elsewhere => OnRevision(edit, Len(store[d][t]) + 1, d)
    BY <1>5 DEF LatestRevision, OnRevision
  <2>2. ASSUME NEW r \in DOMAIN store[d][t], store[d][t][r] # Elsewhere
        PROVE  OnRevision(store[d][t][r], r, d)
    BY <2>2 DEF StoreTrue
  <2>3. ASSUME NEW r \in DOMAIN longer, longer[r] # Elsewhere
        PROVE  OnRevision(longer[r], r, d)
    <3>1. CASE r \in DOMAIN store[d][t]
      BY <1>3, <2>2, <2>3, <3>1
    <3>2. CASE r = Len(store[d][t]) + 1
      BY <1>3, <2>1, <2>3, <3>2
    <3> QED  BY <1>3, <2>3, <3>1, <3>2
  <2> QED  BY <2>3
<1>8. ASSUME NEW e \in Databases, NEW u \in TaskIds, NEW r \in DOMAIN store'[e][u], store'[e][u][r] # Elsewhere
      PROVE  OnRevision(store'[e][u][r], r, e)
  <2>1. CASE e = d /\ u = t
    <3>1. store'[e][u] = longer
      BY <1>6, <2>1
    <3> QED  BY <1>7, <1>8, <2>1, <3>1
  <2>2. CASE ~(e = d /\ u = t)
    <3>1. store'[e][u] = store[e][u]
      BY <1>6, <2>2
    <3>2. \A n \in DOMAIN store[e][u] : store[e][u][n] # Elsewhere => OnRevision(store[e][u][n], n, e)
      BY DEF StoreTrue
    <3> DEFINE rows == store'[e][u]
    <3>3. rows = store[e][u] /\ r \in DOMAIN rows /\ rows[r] # Elsewhere
      BY <1>8, <3>1
    <3>4. OnRevision(rows[r], r, e)
      <4> HIDE DEF rows
      <4> QED  BY <3>2, <3>3
    <3> QED  BY <3>4
  <2> QED  BY <2>1, <2>2
<1>9. store' \in [Databases -> [TaskIds -> Seq(EditRows)]]
  BY <1>6 DEF Rows
<1> QED  BY <1>8, <1>9 DEF StoreTrue

LEMMA ElsewhereStep ==
  ASSUME WebInv, NEW d \in Databases, NEW t \in TaskIds, EditElsewhere(d, t)
  PROVE  WebInv'
<1>1. StoreTrue'
  <2>1. Elsewhere \in EditRows
    BY DEF Elsewhere, EditRows, Homes
  <2> QED  BY <2>1, StoreKeeps DEF WebInv, EditElsewhere
<1>2. UNCHANGED <<services, tabs, loads, saves, asked>>
  BY DEF EditElsewhere
<1> QED
  BY <1>1, <1>2 DEF WebInv, ServicesTrue, TabTrue, OpenRow, LoadTrue, SaveTrue, Delivered, IsOpen, Client, Database

\* What changes among the requests, while the tabs and the services rest.
LEMMA RequestsKeep ==
  ASSUME WebInv, UNCHANGED <<services, tabs, asked>>, StoreTrue',
         \A q \in loads' : LoadTrue(q), \A s \in saves' : SaveTrue(s)
  PROVE  WebInv'
BY DEF WebInv, ServicesTrue, TabTrue, OpenRow, LoadTrue, SaveTrue, Delivered, IsOpen, Client, Database

LEMMA ServeLoadStep ==
  ASSUME WebInv, NEW q \in loads, ServeLoad(q)
  PROVE  WebInv'
<1>1. LoadTrue(q) /\ q \in LoadRows /\ Database(q.client) \in Databases
  BY ServiceRow DEF WebInv, LoadTrue
<1>2. PICK a \in {"ok", "STORAGE_BUSY"} \cup Refusals : loads' = (loads \ {q}) \cup
        {[q EXCEPT !.answer = a,
                   !.data = IF a = "ok" THEN [db |-> Database(q.client), request |-> q.number,
                                              revision |-> LatestRevision(Database(q.client), q.task)]
                            ELSE NoData]}
  BY DEF ServeLoad, Refusal, Refusals
<1> DEFINE data == IF a = "ok" THEN [db |-> Database(q.client), request |-> q.number,
                                     revision |-> LatestRevision(Database(q.client), q.task)]
                   ELSE NoData
           served == [q EXCEPT !.answer = a, !.data = data]
<1>3. data \in DataRows /\ (data # NoData => data.db = Database(q.client) /\ data.request = q.number)
  <2>1. q.task \in TaskIds /\ q.number \in Nat
    BY <1>1 DEF LoadRows
  <2>2. LatestRevision(Database(q.client), q.task) \in Nat
    BY <1>1, <2>1 DEF LatestRevision, WebInv, StoreTrue
  <2> QED  BY <1>1, <2>1, <2>2 DEF NoData, DataRows, Homes
<1>4. loads' = (loads \ {q}) \cup {served}
  BY <1>2
<1> HIDE DEF data
<1>5. served \in LoadRows /\ served.tab = q.tab /\ served.client = q.client /\ served.number = q.number /\ served.data = data
  BY <1>1, <1>2, <1>3 DEF LoadRows, Refusals
<1>6. LoadTrue(served)
  <2> HIDE DEF served
  <2> QED  BY <1>1, <1>3, <1>5 DEF LoadTrue, Delivered
<1> HIDE DEF served
<1>7. UNCHANGED <<services, store, tabs, saves, asked>>
  BY DEF ServeLoad
<1> QED  BY <1>4, <1>6, <1>7, RequestsKeep DEF WebInv, StoreTrue

LEMMA ServeSaveStep ==
  ASSUME WebInv, NEW s \in saves, ServeSave(s)
  PROVE  WebInv'
<1> DEFINE d == Database(s.client)
           edit == [base |-> s.base, home |-> s.home, strayed |-> s.strayed]
<1>1. SaveTrue(s) /\ s \in SaveRows /\ d \in Databases /\ s.task \in TaskIds
  BY ServiceRow DEF WebInv, SaveTrue, SaveRows
<1>2. PICK a \in {"ok", "refused"} \cup Refusals : saves' = (saves \ {s}) \cup {[s EXCEPT !.answer = a]}
  BY DEF ServeSave, Refusal, Refusals
<1>3. StoreTrue'
  <2>1. CASE UNCHANGED store
    BY <2>1 DEF WebInv, StoreTrue
  <2>2. CASE /\ LatestRevision(d, s.task) = s.expected
             /\ store' = [store EXCEPT ![d][s.task] = Append(@, edit)]
    <3>1. edit \in EditRows /\ edit.base = LatestRevision(d, s.task) /\ AtHome(edit, d)
      BY <1>1, <2>2 DEF SaveTrue, SaveRows, EditRows, AtHome
    <3> HIDE DEF edit, d
    <3> QED  BY <1>1, <2>2, <3>1, StoreKeeps DEF WebInv
  <2> QED  BY <2>1, <2>2 DEF ServeSave
<1>4. SaveTrue([s EXCEPT !.answer = a])
  BY <1>1, <1>2 DEF SaveTrue, SaveRows, Refusals, AtHome
<1>5. UNCHANGED <<services, tabs, loads, asked>>
  BY DEF ServeSave
<1> QED  BY <1>2, <1>3, <1>4, <1>5, RequestsKeep DEF WebInv

-----------------------------------------------------------------------------
(* The steps of a tab.                                                       *)

LEMMA SingleUpdates ==
  ASSUME NEW r \in TabRows
  PROVE  /\ \A v \in BOOLEAN : [r EXCEPT !.loading = v] \in TabRows /\ [r EXCEPT !.expired = v] \in TabRows
                               /\ [r EXCEPT !.editing = v] \in TabRows
         /\ \A v \in DataRows : [r EXCEPT !.data = v] \in TabRows
         /\ \A v \in EditorRows : [r EXCEPT !.editor = v] \in TabRows
         /\ \A v \in DraftRows : [r EXCEPT !.recovered = v] \in TabRows
         /\ \A v \in Nat : [r EXCEPT !.client = v] \in TabRows /\ [r EXCEPT !.visit = v] \in TabRows
         /\ \A v \in TaskIds : [r EXCEPT !.task = v] \in TabRows
         /\ \A v \in Homes : [r EXCEPT !.identity = v] \in TabRows
BY DEF TabRows

LEMMA Nothings ==
  /\ NoData \in DataRows /\ NoEditor \in EditorRows /\ NoDraft \in DraftRows
  /\ NoData.request = 0 /\ NoDraft.home = Nothing
BY DEF NoData, NoEditor, NoDraft, DataRows, EditorRows, DraftRows, Homes

\* Steps that change the row of an open tab and nothing it is connected to.
LEMMA StayKeeps ==
  ASSUME WebInv, NEW k \in Tabs, IsOpen(k), NEW p, OpenRow(p), Set(k, p),
         p.client = tabs[k].client, p.request = tabs[k].request,
         UNCHANGED <<services, store, asked>>, loads' \subseteq loads,
         \A s \in saves' : s \in saves \/ SaveTrue(s)
  PROVE  WebInv'
BY SetKeeps DEF SameConnection, Client

LEMMA NavigateStep ==
  ASSUME WebInv, NEW k \in Tabs, NEW t \in TaskIds, Navigate(k, t)
  PROVE  WebInv'
<1> DEFINE p == tabs[k]
           r == [p EXCEPT !.task = t, !.data = NoData, !.editing = FALSE, !.editor = NoEditor, !.visit = asked + 1]
<1>1. OpenRow(p) /\ p \in TabRows
  BY OpenTab DEF Navigate, WebInv
<1>2. asked + 1 \in Nat
  BY DEF WebInv
<1>3. r \in TabRows
  BY <1>1, <1>2, SingleUpdates, Nothings
<1>4. /\ r.client = p.client /\ r.task = t /\ r.data = NoData /\ r.editor = NoEditor /\ r.recovered = p.recovered
      /\ r.envelope = p.envelope
  BY <1>1 DEF TabRows
<1>5. Load(k, r) /\ UNCHANGED <<services, store, saves>>
  BY DEF Navigate
<1> HIDE DEF r
<1>6. OpenRow(r) /\ r.task # Nothing
  BY <1>1, <1>3, <1>4, WebAssumption DEF OpenRow
<1> QED  BY <1>5, <1>6, LoadKeeps

LEMMA ReloadStep ==
  ASSUME WebInv, NEW k \in Tabs, Reload(k)
  PROVE  WebInv'
BY OpenTab, LoadKeeps DEF Reload

LEMMA PollStep ==
  ASSUME WebInv, NEW k \in Tabs, NEW value \in BOOLEAN, IsOpen(k),
         Set(k, [tabs[k] EXCEPT !.expired = value]), UNCHANGED <<services, store, loads, saves, asked>>
  PROVE  WebInv'
<1> DEFINE p == tabs[k]
           r == [p EXCEPT !.expired = value]
<1>1. OpenRow(p) /\ p \in TabRows
  BY OpenTab DEF WebInv
<1>2. /\ r \in TabRows /\ r.client = p.client /\ r.task = p.task /\ r.data = p.data /\ r.loading = p.loading
      /\ r.request = p.request /\ r.editor = p.editor /\ r.recovered = p.recovered
      /\ r.editing = p.editing /\ r.envelope = p.envelope
  BY <1>1 DEF TabRows
<1> HIDE DEF r
<1>3. OpenRow(r)
  BY <1>1, <1>2 DEF OpenRow
<1> QED  BY <1>2, <1>3, StayKeeps DEF r

LEMMA EditStep ==
  ASSUME WebInv, NEW k \in Tabs, Edit(k)
  PROVE  WebInv'
<1> DEFINE p == tabs[k]
           r == [p EXCEPT !.editing = TRUE]
<1>1. IsOpen(k)
  BY DEF Edit, Shown, IsOpen, Client, WebInv, TabTrue, OpenRow, Closed, ServicesTrue
<1>2. OpenRow(p) /\ p \in TabRows
  BY <1>1, OpenTab DEF WebInv
<1>3. /\ r \in TabRows /\ r.client = p.client /\ r.task = p.task /\ r.data = p.data /\ r.loading = p.loading
      /\ r.request = p.request /\ r.editor = p.editor /\ r.recovered = p.recovered
      /\ ~r.loading /\ r.envelope = p.envelope
  BY <1>2 DEF TabRows, Edit
<1>4. Set(k, r) /\ UNCHANGED <<services, store, loads, saves, asked>>
  BY DEF Edit
<1> HIDE DEF r
<1>5. OpenRow(r)
  BY <1>2, <1>3 DEF OpenRow
<1> QED  BY <1>1, <1>3, <1>4, <1>5, StayKeeps

\* An editor is open only in a tab that shows a task.
LEMMA UsableTab ==
  ASSUME WebInv, NEW k \in Tabs, Usable(k)
  PROVE  /\ IsOpen(k) /\ OpenRow(tabs[k]) /\ tabs[k] \in TabRows
         /\ tabs[k].task # Nothing /\ tabs[k].editor # NoEditor /\ AtHome(tabs[k].editor, Database(Client(k)))
<1>1. tabs[k].editor # NoEditor /\ tabs[k] \in TabRows
  BY DEF Usable, WebInv
<1>2. IsOpen(k)
  BY <1>1 DEF IsOpen, Client, WebInv, TabTrue, OpenRow, Closed, ServicesTrue
<1> QED  BY <1>1, <1>2, OpenTab DEF OpenRow, Mounted, Client

-----------------------------------------------------------------------------
(* Single fields of an open tab's row.                                       *)

LEMMA EditorRow ==
  ASSUME NEW p, OpenRow(p), NEW e \in EditorRows, e # NoEditor => AtHome(e, Database(p.client)),
         p.editor # NoEditor => e # NoEditor
  PROVE  /\ OpenRow([p EXCEPT !.editor = e])
         /\ [p EXCEPT !.editor = e].client = p.client /\ [p EXCEPT !.editor = e].request = p.request
<1> DEFINE r == [p EXCEPT !.editor = e]
<1>1. p \in TabRows
  BY DEF OpenRow
<1>2. r \in TabRows
  BY <1>1, SingleUpdates
<1>3. /\ r.client = p.client /\ r.task = p.task /\ r.data = p.data /\ r.loading = p.loading
      /\ r.request = p.request /\ r.editor = e /\ r.recovered = p.recovered
      /\ r.editing = p.editing /\ r.envelope = p.envelope
  BY <1>1 DEF TabRows
<1> HIDE DEF r
<1>4. OpenRow(r)
  BY <1>2, <1>3 DEF OpenRow
<1> QED  BY <1>3, <1>4 DEF r

LEMMA ExpiredRow ==
  ASSUME NEW p, OpenRow(p), NEW value \in BOOLEAN
  PROVE  /\ OpenRow([p EXCEPT !.expired = value])
         /\ [p EXCEPT !.expired = value].client = p.client /\ [p EXCEPT !.expired = value].request = p.request
<1> DEFINE r == [p EXCEPT !.expired = value]
<1>1. p \in TabRows
  BY DEF OpenRow
<1>2. r \in TabRows
  BY <1>1, SingleUpdates
<1>3. /\ r.client = p.client /\ r.task = p.task /\ r.data = p.data /\ r.loading = p.loading
      /\ r.request = p.request /\ r.editor = p.editor /\ r.recovered = p.recovered
      /\ r.editing = p.editing /\ r.envelope = p.envelope
  BY <1>1 DEF TabRows
<1> HIDE DEF r
<1>4. OpenRow(r)
  BY <1>2, <1>3 DEF OpenRow
<1> QED  BY <1>3, <1>4 DEF r

LEMMA RecoveredRow ==
  ASSUME NEW p, OpenRow(p), NEW draft \in DraftRows, draft # NoDraft => AtHome(draft, Database(p.client))
  PROVE  /\ OpenRow([p EXCEPT !.recovered = draft])
         /\ [p EXCEPT !.recovered = draft].client = p.client /\ [p EXCEPT !.recovered = draft].request = p.request
         /\ [p EXCEPT !.recovered = draft].task = p.task
<1> DEFINE r == [p EXCEPT !.recovered = draft]
<1>1. p \in TabRows
  BY DEF OpenRow
<1>2. r \in TabRows
  BY <1>1, SingleUpdates
<1>3. /\ r.client = p.client /\ r.task = p.task /\ r.data = p.data /\ r.loading = p.loading
      /\ r.request = p.request /\ r.editor = p.editor /\ r.recovered = draft
      /\ r.editing = p.editing /\ r.envelope = p.envelope
  BY <1>1 DEF TabRows
<1> HIDE DEF r
<1>4. OpenRow(r)
  BY <1>2, <1>3 DEF OpenRow
<1> QED  BY <1>3, <1>4 DEF r

LEMMA StopEditingRow ==
  ASSUME NEW p, OpenRow(p)
  PROVE  /\ OpenRow(StopEditing(p)) /\ StopEditing(p).task = p.task
         /\ StopEditing(p).client = p.client /\ StopEditing(p).request = p.request
<1> DEFINE e == [p EXCEPT !.editing = FALSE]
<1>1. p \in TabRows
  BY DEF OpenRow
<1>2. e \in TabRows
  BY <1>1, SingleUpdates
<1>3. /\ e.client = p.client /\ e.task = p.task /\ e.data = p.data /\ e.loading = p.loading
      /\ e.request = p.request /\ e.editor = p.editor /\ e.recovered = p.recovered
      /\ ~e.editing /\ e.envelope = p.envelope
  BY <1>1 DEF TabRows
<1>4. StopEditing(p) = [e EXCEPT !.recovered = NoDraft]
  BY DEF StopEditing
<1> HIDE DEF e
<1>5. OpenRow(e)
  BY <1>2, <1>3 DEF OpenRow
<1> QED  BY <1>3, <1>4, <1>5, RecoveredRow, Nothings

\* Another task, or the task of a recovered draft: what is shown belongs to it.
LEMMA VisitRow ==
  ASSUME NEW p, OpenRow(p), NEW t \in TaskIds, NEW n \in Nat
  PROVE  /\ OpenRow([p EXCEPT !.task = t, !.visit = n]) /\ [p EXCEPT !.task = t, !.visit = n].task = t
         /\ [p EXCEPT !.task = t, !.visit = n].client = p.client
<1> DEFINE r == [p EXCEPT !.task = t, !.visit = n]
<1>1. p \in TabRows
  BY DEF OpenRow
<1>2. r \in TabRows
  <2>1. [p EXCEPT !.task = t] \in TabRows
    BY <1>1, SingleUpdates
  <2>2. r = [[p EXCEPT !.task = t] EXCEPT !.visit = n]
    OBVIOUS
  <2> QED  BY <2>1, <2>2, SingleUpdates
<1>3. /\ r.client = p.client /\ r.task = t /\ r.data = p.data /\ r.loading = p.loading
      /\ r.request = p.request /\ r.editor = p.editor /\ r.recovered = p.recovered
      /\ r.editing = p.editing /\ r.envelope = p.envelope
  BY <1>1 DEF TabRows
<1> HIDE DEF r
<1>4. OpenRow(r)
  BY <1>2, <1>3, WebAssumption DEF OpenRow
<1> QED  BY <1>3, <1>4 DEF r

\* A tab with a dialog, an envelope or an identity is open.
LEMMA SomethingOpen ==
  ASSUME WebInv, NEW k \in Tabs, tabs[k].expired \/ tabs[k].envelope # NoSeal
  PROVE  IsOpen(k)
BY DEF IsOpen, Client, WebInv, TabTrue, OpenRow, Closed, ServicesTrue

-----------------------------------------------------------------------------
(* Answers and the editor.                                                   *)

LEMMA AnswerLoadStep ==
  ASSUME WebInv, NEW q \in loads, AnswerLoad(q)
  PROVE  WebInv'
<1> DEFINE k == q.tab
           p == tabs[k]
           r == [p EXCEPT !.data = q.data, !.loading = FALSE, !.expired = @ \/ q.answer = "UNAUTHORIZED"]
<1>1. LoadTrue(q) /\ q \in LoadRows /\ k \in Tabs /\ IsOpen(k) /\ q.number # 0
  BY DEF WebInv, LoadTrue, LoadRows
<1>2. OpenRow(p) /\ p \in TabRows
  BY <1>1, OpenTab DEF WebInv
<1>3. loads' \subseteq loads /\ UNCHANGED <<services, store, saves, asked>>
  BY DEF AnswerLoad
<1>4. CASE ~Delivered(q)
  <2>1. UNCHANGED tabs
    BY <1>4 DEF AnswerLoad
  <2> QED  BY <1>3, <2>1, RequestsKeep DEF WebInv, StoreTrue
<1>5. CASE Delivered(q)
  <2> DEFINE value == p.expired \/ q.answer = "UNAUTHORIZED"
             e == [[p EXCEPT !.data = q.data] EXCEPT !.loading = FALSE]
  <2>1. value \in BOOLEAN /\ q.data \in DataRows
    BY <1>1, <1>2 DEF TabRows, LoadRows
  <2>2. e \in TabRows
    BY <1>2, <2>1, SingleUpdates
  <2>3. /\ e.client = p.client /\ e.task = p.task /\ e.data = q.data
        /\ e.request = p.request /\ e.editor = p.editor /\ e.recovered = p.recovered
        /\ e.editing = p.editing /\ e.envelope = p.envelope
    BY <1>2 DEF TabRows
  <2>4. r = [e EXCEPT !.expired = value]
    BY <1>2 DEF TabRows
  <2>5. Set(k, r)
    BY <1>5 DEF AnswerLoad
  <2> HIDE DEF e, r, value
  <2>6. OpenRow(e)
    <3>1. p.request = q.number /\ Database(p.client) = Database(q.client)
      BY <1>1, <1>5 DEF LoadTrue, Delivered, Client
    <3>2. p.task # Nothing
      BY <1>1, <1>2, <3>1 DEF OpenRow
    <3> QED  BY <1>1, <1>2, <2>2, <2>3, <3>1, <3>2 DEF OpenRow, LoadTrue
  <2>7. OpenRow(r) /\ r.client = p.client /\ r.request = p.request
    BY <2>1, <2>3, <2>4, <2>6, ExpiredRow
  <2> QED  BY <1>1, <1>3, <2>5, <2>7, StayKeeps
<1> QED  BY <1>4, <1>5

LEMMA TypeStep ==
  ASSUME WebInv, NEW k \in Tabs, Type(k)
  PROVE  WebInv'
<1> DEFINE p == tabs[k]
           e == [p.editor EXCEPT !.dirty = TRUE]
<1>1. IsOpen(k) /\ OpenRow(p) /\ p \in TabRows /\ p.editor # NoEditor /\ AtHome(p.editor, Database(p.client))
  BY UsableTab DEF Type, Client
<1>2. e \in EditorRows /\ e # NoEditor /\ AtHome(e, Database(p.client))
  BY <1>1 DEF TabRows, EditorRows, NoEditor, AtHome
<1>3. Set(k, [p EXCEPT !.editor = e]) /\ UNCHANGED <<services, store, loads, saves, asked>>
  BY DEF Type
<1> HIDE DEF e
<1>4. /\ OpenRow([p EXCEPT !.editor = e])
      /\ [p EXCEPT !.editor = e].client = p.client /\ [p EXCEPT !.editor = e].request = p.request
  BY <1>1, <1>2, EditorRow
<1> QED  BY <1>1, <1>3, <1>4, StayKeeps

LEMMA DiscardStep ==
  ASSUME WebInv, NEW k \in Tabs, Discard(k)
  PROVE  WebInv'
<1>1. IsOpen(k) /\ OpenRow(tabs[k])
  BY UsableTab DEF Discard
<1>2. Set(k, StopEditing(tabs[k])) /\ UNCHANGED <<services, store, loads, saves, asked>>
  BY DEF Discard
<1> QED  BY <1>1, <1>2, StopEditingRow, StayKeeps

LEMMA SubmitStep ==
  ASSUME WebInv, NEW k \in Tabs, Submit(k)
  PROVE  WebInv'
<1> DEFINE p == tabs[k]
           e == [p.editor EXCEPT !.busy = TRUE]
           new == [tab |-> k, client |-> Client(k), task |-> p.task, visit |-> p.visit,
                   expected |-> Expected(k), base |-> p.editor.base, home |-> p.editor.home,
                   strayed |-> p.editor.strayed, answer |-> "none"]
<1>1. /\ IsOpen(k) /\ OpenRow(p) /\ p \in TabRows
      /\ p.task # Nothing /\ p.editor # NoEditor /\ AtHome(p.editor, Database(p.client))
  BY UsableTab DEF Submit, Client
<1>2. e \in EditorRows /\ e # NoEditor /\ AtHome(e, Database(p.client))
  BY <1>1 DEF TabRows, EditorRows, NoEditor, AtHome
<1>3. /\ Set(k, [p EXCEPT !.editor = e]) /\ saves' = saves \cup {new}
      /\ UNCHANGED <<services, store, loads, asked>>
  BY DEF Submit
<1>4. SaveTrue(new)
  <2>1. p.task \in TaskIds /\ p.client \in Nat /\ p.visit \in Nat /\ p.editor \in EditorRows
    BY <1>1 DEF TabRows
  <2>2. p.editor.base \in Nat /\ p.editor.home \in Homes /\ p.editor.strayed \in BOOLEAN
    BY <2>1 DEF EditorRows
  <2>3. new \in SaveRows
    BY <2>1, <2>2 DEF SaveRows, Expected, Client
  <2>4. /\ new.client = p.client /\ new.expected = p.editor.base /\ new.base = p.editor.base
        /\ new.home = p.editor.home /\ new.strayed = p.editor.strayed /\ new.tab = k
    BY DEF Expected, Client
  <2>5. p.client \in DOMAIN services
    BY <1>1 DEF OpenRow
  <2> HIDE DEF new
  <2> QED  BY <1>1, <2>3, <2>4, <2>5 DEF SaveTrue, AtHome
<1> HIDE DEF e, new
<1>5. /\ OpenRow([p EXCEPT !.editor = e])
      /\ [p EXCEPT !.editor = e].client = p.client /\ [p EXCEPT !.editor = e].request = p.request
  BY <1>1, <1>2, EditorRow
<1> QED  BY <1>1, <1>3, <1>4, <1>5, StayKeeps

LEMMA AnswerSaveStep ==
  ASSUME WebInv, NEW s \in saves, AnswerSave(s)
  PROVE  WebInv'
<1> DEFINE k == s.tab
           p == tabs[k]
           here == p.visit = s.visit /\ p.task = s.task
<1>1. SaveTrue(s) /\ s \in SaveRows /\ k \in Tabs /\ s.task \in TaskIds /\ IsOpen(k)
  BY DEF WebInv, SaveTrue, SaveRows
<1>2. OpenRow(p) /\ p \in TabRows
  BY <1>1, OpenTab DEF WebInv
<1>3. saves' \subseteq saves /\ UNCHANGED <<services, store>>
  BY DEF AnswerSave
<1>4. PICK a \in Answers(s) :
        \/ here /\ Load(k, StopEditing(p))
        \/ Set(k, [p EXCEPT !.recovered = NoDraft]) /\ UNCHANGED <<loads, asked>>
        \/ /\ Set(k, [p EXCEPT !.editor.busy = IF here THEN FALSE ELSE @,
                               !.expired = @ \/ (p.client = s.client /\ a # "refused")])
           /\ UNCHANGED <<loads, asked>>
  BY DEF AnswerSave
<1>5. CASE here /\ Load(k, StopEditing(p))
  <2>1. p.task # Nothing
    BY <1>1, <1>5, WebAssumption
  <2> QED  BY <1>1, <1>2, <1>3, <1>5, <2>1, StopEditingRow, LoadKeeps
<1>6. CASE Set(k, [p EXCEPT !.recovered = NoDraft]) /\ UNCHANGED <<loads, asked>>
  BY <1>1, <1>2, <1>3, <1>6, RecoveredRow, Nothings, StayKeeps
<1>7. CASE /\ Set(k, [p EXCEPT !.editor.busy = IF here THEN FALSE ELSE @,
                              !.expired = @ \/ (p.client = s.client /\ a # "refused")])
           /\ UNCHANGED <<loads, asked>>
  <2> DEFINE e == [p.editor EXCEPT !.busy = IF here THEN FALSE ELSE @]
             value == p.expired \/ (p.client = s.client /\ a # "refused")
             r == [p EXCEPT !.editor = e]
             q == [p EXCEPT !.editor.busy = IF here THEN FALSE ELSE @,
                            !.expired = @ \/ (p.client = s.client /\ a # "refused")]
  <2>1. p.editor \in EditorRows /\ p.expired \in BOOLEAN
    BY <1>2 DEF TabRows
  <2>2. e \in EditorRows /\ e.home = p.editor.home /\ e.strayed = p.editor.strayed /\ value \in BOOLEAN
    BY <2>1 DEF EditorRows
  <2>3. ASSUME p.editor = NoEditor PROVE e = NoEditor
    <3> DEFINE free == IF here THEN FALSE ELSE p.editor.busy
    <3>1. free = NoEditor.busy
      BY <2>3 DEF NoEditor
    <3>2. e = [p.editor EXCEPT !.busy = free]
      OBVIOUS
    <3> HIDE DEF free, e
    <3>3. [NoEditor EXCEPT !.busy = NoEditor.busy] = NoEditor
      BY DEF NoEditor
    <3> QED  BY <2>3, <3>1, <3>2, <3>3
  <2>4. q = [r EXCEPT !.expired = value]
    BY <1>2 DEF TabRows
  <2>5. Set(k, q) /\ UNCHANGED <<loads, asked>>
    BY <1>7
  <2> HIDE DEF e, value, q, r
  <2>6. OpenRow(r) /\ r.client = p.client /\ r.request = p.request
    <3>1. p.editor # NoEditor => AtHome(e, Database(p.client)) /\ e # NoEditor
      <4>1. Database(p.client) # Nothing
        BY <1>2, ServiceRow, WebAssumption DEF OpenRow, WebInv
      <4> QED  BY <1>2, <2>2, <4>1 DEF OpenRow, AtHome, NoEditor
    <3> QED  BY <1>2, <2>2, <2>3, <3>1, EditorRow DEF r
  <2>7. OpenRow(q) /\ q.client = p.client /\ q.request = p.request
    BY <2>2, <2>4, <2>6, ExpiredRow
  <2> QED  BY <1>1, <1>3, <2>5, <2>7, StayKeeps
<1> QED  BY <1>4, <1>5, <1>6, <1>7

-----------------------------------------------------------------------------
(* Reconnecting.                                                             *)

\* What the history says of a row belongs to no database in particular.
LEMMA StrayingRow ==
  ASSUME NEW astray \in BOOLEAN
  PROVE  /\ \A e \in EditorRows : LET f == Straying(e, NoEditor, astray) IN
              /\ f \in EditorRows /\ (f = NoEditor <=> e = NoEditor)
              /\ f # NoEditor => (e.strayed \/ astray => f.strayed) /\ f.home = e.home
         /\ \A d \in DraftRows : LET f == Straying(d, NoDraft, astray) IN
              /\ f \in DraftRows /\ (f = NoDraft <=> d = NoDraft)
              /\ f # NoDraft => (d.strayed \/ astray => f.strayed) /\ f.home = d.home
<1>1. ASSUME NEW e \in EditorRows
      PROVE  LET f == Straying(e, NoEditor, astray) IN
               /\ f \in EditorRows /\ (f = NoEditor <=> e = NoEditor)
               /\ f # NoEditor => (e.strayed \/ astray => f.strayed) /\ f.home = e.home
  <2>1. CASE e = NoEditor \/ ~astray
    BY <2>1 DEF Straying
  <2>2. CASE e # NoEditor /\ astray
    BY <2>2 DEF Straying, EditorRows, NoEditor
  <2> QED  BY <2>1, <2>2
<1>2. ASSUME NEW d \in DraftRows
      PROVE  LET f == Straying(d, NoDraft, astray) IN
               /\ f \in DraftRows /\ (f = NoDraft <=> d = NoDraft)
               /\ f # NoDraft => (d.strayed \/ astray => f.strayed) /\ f.home = d.home
  <2>1. CASE d = NoDraft \/ ~astray
    BY <2>1 DEF Straying
  <2>2. CASE d # NoDraft /\ astray
    BY <2>2 DEF Straying, DraftRows, NoDraft
  <2> QED  BY <2>1, <2>2
<1> QED  BY <1>1, <1>2

\* What was compared stays with its database; the rest is known to have strayed.
LEMMA ReconnectHereStep ==
  ASSUME WebInv, NEW k \in Tabs, NEW s \in DOMAIN services, tabs[k].expired, ReconnectHere(k, s)
  PROVE  WebInv'
<1> DEFINE p == tabs[k]
           astray == Strays(k, s)
           editor == Straying(p.editor, NoEditor, astray)
           draft == Straying(p.recovered, NoDraft, astray)
           a == [p EXCEPT !.client = s]
           b == [a EXCEPT !.editor = editor]
           e == [b EXCEPT !.recovered = draft]
           r == [p EXCEPT !.client = s, !.expired = FALSE,
                          !.editor = Straying(@, NoEditor, Strays(k, s)),
                          !.recovered = Straying(@, NoDraft, Strays(k, s))]
<1>1. IsOpen(k)
  BY SomethingOpen
<1>2. OpenRow(p) /\ Mounted(p) /\ p \in TabRows /\ ServicesTrue
  BY <1>1, OpenTab DEF WebInv
<1>3. p.editor \in EditorRows /\ p.recovered \in DraftRows /\ astray \in BOOLEAN
  BY <1>2 DEF TabRows, Strays
<1>4. s \in Nat
  BY <1>2 DEF ServicesTrue
<1>5. astray \/ Database(s) = Database(p.client)
  BY DEF ReconnectHere, SameWorkspace, Strays, Compared, Identified, Client
<1>6. IF r.task = Nothing THEN Set(k, r) /\ UNCHANGED <<loads, asked>> ELSE Load(k, r)
  BY DEF ReconnectHere
<1>7. UNCHANGED <<services, store, saves>>
  BY DEF ReconnectHere
<1> HIDE DEF astray
<1>8. /\ editor \in EditorRows /\ (editor = NoEditor <=> p.editor = NoEditor)
      /\ editor # NoEditor => AtHome(editor, Database(s))
      /\ draft \in DraftRows
      /\ draft # NoDraft => AtHome(draft, Database(s))
  BY <1>2, <1>3, <1>5, StrayingRow DEF OpenRow, AtHome
<1> HIDE DEF editor, draft
<1>9. e \in TabRows
  <2>1. a \in TabRows
    BY <1>2, <1>4, SingleUpdates
  <2> HIDE DEF a
  <2>2. b \in TabRows
    BY <1>8, <2>1, SingleUpdates
  <2> HIDE DEF b
  <2> QED  BY <1>8, <2>2, SingleUpdates
<1>10. /\ e.client = s /\ e.task = p.task /\ e.data = p.data /\ e.loading = p.loading
       /\ e.request = p.request /\ e.editor = editor /\ e.recovered = draft
       /\ e.editing = p.editing /\ e.envelope = p.envelope
  BY <1>2 DEF TabRows
<1>11. r = [e EXCEPT !.expired = FALSE]
  BY <1>2 DEF TabRows, editor, draft, astray
<1>12. CASE p.task = Nothing
  <2> HIDE DEF e, r
  <2>1. OpenRow(e)
    BY <1>2, <1>8, <1>9, <1>10, <1>12 DEF OpenRow
  <2>2. OpenRow(r) /\ r.client = s /\ r.request = p.request /\ r.task = Nothing
    BY <1>9, <1>10, <1>11, <1>12, <2>1, ExpiredRow DEF TabRows
  <2>3. SameConnection(k, r)
    BY <1>2, <1>12, <2>2 DEF SameConnection, OpenRow
  <2> QED  BY <1>6, <1>7, <2>2, <2>3, SetKeeps
<1>13. CASE p.task # Nothing
  <2> DEFINE l == [e EXCEPT !.loading = TRUE]
             w == [r EXCEPT !.loading = TRUE]
  <2> HIDE DEF e, r
  <2>1. /\ l \in TabRows /\ l.loading /\ l.client = s /\ l.task = p.task /\ l.data = p.data
        /\ l.request = p.request /\ l.editor = editor /\ l.recovered = draft
        /\ l.editing = p.editing /\ l.envelope = p.envelope
    BY <1>9, <1>10, SingleUpdates DEF TabRows
  <2>2. w = [l EXCEPT !.expired = FALSE]
    BY <1>9, <1>11 DEF TabRows
  <2>3. Asking(w) = Asking(r)
    <3>1. r \in TabRows
      BY <1>9, <1>11, SingleUpdates
    <3> QED  BY <3>1 DEF Asking, TabRows
  <2> HIDE DEF l, w
  <2>4. OpenRow(l)
    BY <1>2, <1>8, <1>13, <2>1 DEF OpenRow, Mounted
  <2>5. OpenRow(w) /\ w.client = s /\ w.task = p.task
    BY <2>1, <2>2, <2>4, ExpiredRow DEF TabRows
  <2>6. r.task = p.task /\ r.client = s
    BY <1>9, <1>10, <1>11 DEF TabRows
  <2>7. Load(k, w)
    BY <1>6, <1>13, <2>3, <2>5, <2>6 DEF Load
  <2> QED  BY <1>7, <1>13, <2>5, <2>7, LoadKeeps
<1> QED  BY <1>12, <1>13

LEMMA ConnectedRow ==
  ASSUME WebInv, NEW s \in DOMAIN services
  PROVE  OpenRow(Connected(s)) /\ Connected(s).request = 0
<1>1. s \in Nat
  BY DEF WebInv, ServicesTrue
<1>2. Connected(s) \in TabRows
  BY <1>1, ClosedRow, SingleUpdates DEF Connected
<1>3. /\ Connected(s).client = s /\ Connected(s).task = Nothing /\ Connected(s).data = NoData
      /\ Connected(s).request = 0 /\ Connected(s).editor = NoEditor /\ Connected(s).recovered = NoDraft
      /\ Connected(s).envelope = NoSeal
  BY DEF Connected, Closed
<1> QED  BY <1>2, <1>3 DEF OpenRow

LEMMA ReconnectElsewhereStep ==
  ASSUME WebInv, NEW k \in Tabs, NEW s \in DOMAIN services, tabs[k].expired, ReconnectElsewhere(k, s)
  PROVE  WebInv'
<1> DEFINE p == tabs[k]
           c == Connected(s)
           seal == [draft |-> DraftOf(k), key |-> p.identity, origin |-> services[s].origin]
<1>1. IsOpen(k)
  BY SomethingOpen
<1>2. OpenRow(p) /\ p \in TabRows /\ Mounted(p)
  BY <1>1, OpenTab DEF WebInv
<1>3. OpenRow(c) /\ c.request = 0
  BY ConnectedRow
<1>4. UNCHANGED <<services, store, loads, saves, asked>>
  BY DEF ReconnectElsewhere
<1> HIDE DEF c, seal
<1>5. CASE ~p.editor.dirty
  <2>1. Set(k, c)
    BY <1>5 DEF ReconnectElsewhere, c
  <2> QED  BY <1>3, <1>4, <2>1, SetKeeps DEF SameConnection
<1>6. CASE p.editor.dirty
  <2>2. PICK new \in Tabs : Set(new, [c EXCEPT !.envelope = seal])
    BY <1>6 DEF ReconnectElsewhere, c, seal
  <2> DEFINE r == [c EXCEPT !.envelope = seal]
  <2>3. p.editor # NoEditor
    BY <1>6 DEF NoEditor
  <2>4. /\ seal.draft = DraftOf(k) /\ seal.key = p.identity /\ seal.draft.home = p.editor.home
        /\ seal.draft.strayed = (p.editor.strayed \/ p.identity # Database(p.client))
        /\ seal.draft.task = p.task
    BY DEF seal, DraftOf, Identified, Client
  <2>5. AtHome(seal.draft, seal.key) /\ seal.draft.task # Nothing
    BY <1>2, <2>3, <2>4 DEF OpenRow, Mounted, AtHome
  <2>6. seal \in [draft : DraftRows, key : Homes, origin : Origins \cup {Nothing}]
    <3>1. p.task \in TaskIds \cup {Nothing} /\ p.identity \in Homes /\ p.editor \in EditorRows
      BY <1>2 DEF TabRows
    <3>2. DraftOf(k) \in DraftRows
      BY <3>1 DEF DraftOf, Identified, DraftRows, EditorRows
    <3>3. services[s].origin \in Origins
      BY ServiceRow DEF WebInv
    <3> QED  BY <3>1, <3>2, <3>3 DEF seal
  <2>7. c \in TabRows
    BY <1>3 DEF OpenRow
  <2>8. /\ r \in TabRows /\ r.client = c.client /\ r.task = c.task /\ r.data = c.data /\ r.loading = c.loading
        /\ r.request = c.request /\ r.editor = c.editor /\ r.recovered = c.recovered
        /\ r.editing = c.editing /\ r.envelope = seal
    BY <2>6, <2>7 DEF TabRows
  <2> HIDE DEF r
  <2>9. OpenRow(r) /\ SameConnection(new, r)
    BY <1>3, <2>5, <2>8 DEF OpenRow, SameConnection
  <2> QED  BY <1>4, <2>2, <2>9, SetKeeps DEF r
<1> QED  BY <1>5, <1>6

\* The row without its envelope.
LEMMA UnsealedRow ==
  ASSUME NEW p, OpenRow(p)
  PROVE  /\ OpenRow([p EXCEPT !.envelope = NoSeal])
         /\ [p EXCEPT !.envelope = NoSeal].client = p.client /\ [p EXCEPT !.envelope = NoSeal].request = p.request
<1> DEFINE r == [p EXCEPT !.envelope = NoSeal]
<1>1. p \in TabRows
  BY DEF OpenRow
<1>2. NoSeal \in [draft : DraftRows, key : Homes, origin : Origins \cup {Nothing}]
  BY Nothings DEF NoSeal, Homes
<1>3. /\ r \in TabRows /\ r.client = p.client /\ r.task = p.task /\ r.data = p.data /\ r.loading = p.loading
      /\ r.request = p.request /\ r.editor = p.editor /\ r.recovered = p.recovered
      /\ r.editing = p.editing /\ r.envelope = NoSeal
  BY <1>1, <1>2 DEF TabRows
<1> HIDE DEF r
<1>4. OpenRow(r)
  BY <1>1, <1>3 DEF OpenRow
<1> QED  BY <1>3, <1>4 DEF r

LEMMA LoadIdentityStep ==
  ASSUME WebInv, NEW k \in Tabs, LoadIdentity(k)
  PROVE  WebInv'
<1> DEFINE p == tabs[k]
           d == Database(Client(k))
           i == [p EXCEPT !.identity = d]
           q == [p EXCEPT !.identity = d, !.envelope = NoSeal]
           draft == p.envelope.draft
           r == [q EXCEPT !.task = draft.task, !.recovered = draft, !.visit = asked + 1]
<1>1. IsOpen(k) /\ UNCHANGED <<services, store, saves>>
  BY DEF LoadIdentity
<1>2. OpenRow(p) /\ p \in TabRows /\ asked \in Nat /\ d = Database(p.client)
  BY <1>1, OpenTab DEF WebInv, Client
<1>3. \/ p.envelope # NoSeal /\ Opens(p.envelope, d, Client(k)) /\ Load(k, r)
      \/ Set(k, q) /\ UNCHANGED <<loads, asked>>
  BY DEF LoadIdentity
<1>4. OpenRow(i) /\ i.client = p.client /\ i.request = p.request
  <2>1. d \in Homes
    BY <1>2, ServiceRow DEF WebInv, OpenRow, Homes
  <2>2. i \in TabRows
    BY <1>2, <2>1, SingleUpdates
  <2>3. /\ i.client = p.client /\ i.task = p.task /\ i.data = p.data /\ i.loading = p.loading
        /\ i.request = p.request /\ i.editor = p.editor /\ i.recovered = p.recovered
        /\ i.editing = p.editing /\ i.envelope = p.envelope
    BY <1>2 DEF TabRows
  <2> HIDE DEF i, d
  <2> QED  BY <1>2, <2>2, <2>3 DEF OpenRow
<1>5. q = [i EXCEPT !.envelope = NoSeal]
  OBVIOUS
<1> HIDE DEF i, q
<1>6. OpenRow(q) /\ q.client = p.client /\ q.request = p.request
  BY <1>4, <1>5, UnsealedRow
<1>7. CASE Set(k, q) /\ UNCHANGED <<loads, asked>>
  BY <1>1, <1>6, <1>7, StayKeeps
<1>8. CASE p.envelope # NoSeal /\ Opens(p.envelope, d, Client(k)) /\ Load(k, r)
  <2>1. p.envelope \in [draft : DraftRows, key : Homes, origin : Origins \cup {Nothing}]
    BY <1>2 DEF TabRows
  <2>2. draft \in DraftRows
    BY <2>1
  <2>3. draft.task \in TaskIds /\ AtHome(draft, Database(p.client))
    BY <1>2, <1>8, <2>2 DEF OpenRow, Opens, DraftRows
  <2> DEFINE v == [q EXCEPT !.task = draft.task, !.visit = asked + 1]
  <2>4. r = [v EXCEPT !.recovered = draft]
    BY <1>6 DEF OpenRow, TabRows
  <2>5. Load(k, r)
    BY <1>8
  <2> HIDE DEF v, r, draft
  <2>6. asked + 1 \in Nat
    BY <1>2
  <2>7. OpenRow(v) /\ v.task = draft.task /\ v.client = p.client
    <3>1. \A t \in TaskIds, n \in Nat :
            /\ OpenRow([q EXCEPT !.task = t, !.visit = n]) /\ [q EXCEPT !.task = t, !.visit = n].task = t
            /\ [q EXCEPT !.task = t, !.visit = n].client = q.client
      BY <1>6, VisitRow
    <3> QED  BY <1>6, <2>3, <2>6, <3>1 DEF v
  <2>8. OpenRow(r) /\ r.task = draft.task
    BY <2>2, <2>3, <2>4, <2>7, RecoveredRow
  <2>9. r.task # Nothing
    BY <2>3, <2>8, WebAssumption
  <2> QED  BY <1>1, <2>5, <2>8, <2>9, LoadKeeps
<1> QED  BY <1>3, <1>7, <1>8

LEMMA IdentityFailsStep ==
  ASSUME WebInv, NEW k \in Tabs, IdentityFails(k)
  PROVE  WebInv'
<1>1. IsOpen(k)
  BY SomethingOpen DEF IdentityFails
<1>2. OpenRow(tabs[k])
  BY <1>1, OpenTab
<1> QED  BY <1>1, <1>2, UnsealedRow, StayKeeps DEF IdentityFails

-----------------------------------------------------------------------------
(* The invariant.                                                            *)

LEMMA WebInitially == WebInit => WebInv
<1> SUFFICES ASSUME WebInit PROVE WebInv
  OBVIOUS
<1>1. PICK d \in Databases, o \in Origins : o \in portsOf[d] /\ services = <<[db |-> d, origin |-> o, alive |-> TRUE]>>
  BY DEF WebInit
<1>2. ServicesTrue /\ 1 \in DOMAIN services
  <2> DEFINE row == [db |-> d, origin |-> o, alive |-> TRUE]
  <2>1. row \in [db : Databases, origin : Origins, alive : BOOLEAN]
    BY <1>1
  <2>2. services = <<row>>
    BY <1>1
  <2> HIDE DEF row
  <2> QED  BY <2>1, <2>2 DEF ServicesTrue
<1>3. StoreTrue
  <2>1. Elsewhere \in EditRows
    BY DEF Elsewhere, EditRows, Homes
  <2>2. store = [e \in Databases |-> [t \in TaskIds |-> <<Elsewhere>>]]
    BY DEF WebInit
  <2>3. <<Elsewhere>> \in Seq(EditRows)
    BY <2>1
  <2>4. \A r \in DOMAIN <<Elsewhere>> : <<Elsewhere>>[r] = Elsewhere
    OBVIOUS
  <2>5. store \in [Databases -> [TaskIds -> Seq(EditRows)]]
    BY <2>2, <2>3
  <2>6. \A e \in Databases, t \in TaskIds : store[e][t] = <<Elsewhere>>
    BY <2>2
  <2> QED  BY <2>4, <2>5, <2>6 DEF StoreTrue
<1>4. asked = 0 /\ loads = {} /\ saves = {}
  BY DEF WebInit
<1>5. tabs \in [Tabs -> TabRows] /\ \A k \in Tabs : TabTrue(tabs[k])
  <2>1. tabs = [k \in Tabs |-> IF k = first THEN Connected(1) ELSE Closed]
    BY DEF WebInit
  <2>2. Connected(1) \in TabRows
    BY ClosedRow, SingleUpdates DEF Connected
  <2>3. /\ Connected(1).client = 1 /\ Connected(1).task = Nothing /\ Connected(1).data = NoData
        /\ Connected(1).request = 0 /\ Connected(1).editor = NoEditor /\ Connected(1).recovered = NoDraft
        /\ Connected(1).envelope = NoSeal
    BY DEF Connected, Closed
  <2>4. TabTrue(Connected(1)) /\ TabTrue(Closed)
    BY <1>2, <2>2, <2>3 DEF TabTrue, OpenRow, Mounted
  <2> QED  BY <2>1, <2>2, <2>4, ClosedRow
<1> QED  BY <1>2, <1>3, <1>4, <1>5 DEF WebInv

LEMMA WebInductive ==
  ASSUME WebInv, [WebNext]_webVars
  PROVE  WebInv'
<1>1. CASE UNCHANGED webVars
  BY <1>1, RequestsKeep DEF webVars, WebInv, StoreTrue
<1>2. ASSUME NEW s \in DOMAIN services, Stop(s) PROVE WebInv'
  BY <1>2, StopStep
<1>3. ASSUME NEW d \in Databases, NEW o \in Origins, StartService(d, o) PROVE WebInv'
  BY <1>3, StartStep
<1>4. ASSUME NEW d \in Databases, NEW t \in TaskIds, EditElsewhere(d, t) PROVE WebInv'
  BY <1>4, ElsewhereStep
<1>5. ASSUME NEW q \in loads, ServeLoad(q) \/ AnswerLoad(q) PROVE WebInv'
  BY <1>5, ServeLoadStep, AnswerLoadStep
<1>6. ASSUME NEW s \in saves, ServeSave(s) \/ AnswerSave(s) PROVE WebInv'
  BY <1>6, ServeSaveStep, AnswerSaveStep
<1>7. ASSUME NEW k \in Tabs, Reload(k) \/ Edit(k) \/ Type(k) \/ Discard(k) \/ Submit(k) PROVE WebInv'
  BY <1>7, ReloadStep, EditStep, TypeStep, DiscardStep, SubmitStep
<1>8. ASSUME NEW k \in Tabs, Poll(k) PROVE WebInv'
  BY <1>8, PollStep DEF Poll
<1>9. ASSUME NEW k \in Tabs, CloseDialog(k) PROVE WebInv'
  BY <1>9, PollStep, SomethingOpen DEF CloseDialog
<1>10. ASSUME NEW k \in Tabs, Reconnect(k) PROVE WebInv'
  BY <1>10, ReconnectHereStep, ReconnectElsewhereStep DEF Reconnect
<1>11. ASSUME NEW k \in Tabs, LoadIdentity(k) \/ IdentityFails(k) PROVE WebInv'
  BY <1>11, LoadIdentityStep, IdentityFailsStep
<1>12. ASSUME NEW k \in Tabs, NEW t \in TaskIds, Navigate(k, t) PROVE WebInv'
  BY <1>12, NavigateStep
<1> QED
  BY <1>1, <1>2, <1>3, <1>4, <1>5, <1>6, <1>7, <1>8, <1>9, <1>10, <1>11, <1>12 DEF WebNext

\* What every page, request and revision owes to what is on its way.
THEOREM WebInvariance == WebSpec => []WebInv
<1>1. WebInit => WebInv
  BY WebInitially
<1>2. WebInv /\ [WebNext]_webVars => WebInv'
  BY WebInductive
<1> QED  BY <1>1, <1>2, PTL DEF WebSpec

\* A page shows the answer to its last request from the service it is connected
\* to; a draft is saved on its own revision, and in its own database unless it
\* strayed there at a reconnection that had nothing, or nothing current, to
\* compare (api.ts, app.tsx, TaskService.update).
THEOREM PagesAreTrue == WebSpec => []PagesKeepTheirData
<1>1. ASSUME WebInv PROVE PagesKeepTheirData
  <2>1. ASSUME NEW k \in Tabs, Shown(tabs[k]), ~tabs[k].loading
        PROVE  tabs[k].data.request = tabs[k].request /\ tabs[k].data.db = Database(tabs[k].client)
    BY <1>1, <2>1 DEF WebInv, TabTrue, OpenRow, Shown, Closed
  <2>2. ASSUME NEW k \in Tabs, tabs[k].recovered # NoDraft
        PROVE  AtHome(tabs[k].recovered, Database(Client(k)))
    BY <1>1, <2>2 DEF WebInv, TabTrue, OpenRow, Client, Closed
  <2>3. ASSUME NEW d \in Databases, NEW t \in TaskIds, NEW r \in DOMAIN store[d][t], store[d][t][r] # Elsewhere
        PROVE  OnRevision(store[d][t][r], r, d)
    BY <1>1, <2>3 DEF WebInv, StoreTrue
  <2>4. LatestAnswerShown
    BY <2>1 DEF LatestAnswerShown
  <2>5. DraftsStayHome
    BY <2>2, <2>3 DEF DraftsStayHome, OnRevision, AtHome
  <2> QED  BY <2>4, <2>5 DEF PagesKeepTheirData
<1> QED  BY <1>1, WebInvariance, PTL

-----------------------------------------------------------------------------
(* The settings pages.                                                       *)

RunRows == [source : Roots, state : Standings, aborted : BOOLEAN, service : Nat]
JobRows == [source : Roots, kept : BOOLEAN, run : Nat \cup {Nil}, result : Standings \cup {Nil}]
ViewRows ==
  [knows : Nat, job : Nat \cup {Nil}, followed : Nat \cup {Nil},
   status : {"", "indexing", "unavailable", "partially completed"} \cup Standings, deleted : Nat \cup {Nil}]
AskedStages == {"idle", "sent", "waiting", "answered"}
Kinds == {Nil, "save", "index", "cancel", "remove", "status", "clear", "delete"}
AnswerRows == Standings \cup {"ok", Nil, Failure}
AskedRows ==
  [stage : AskedStages, kind : Kinds, source : Roots \cup {Nil}, job : Nat \cup {Nil},
   service : Nat \cup {Nil}, answer : AnswerRows, id : Nat \cup {Nil}, waits : Nat \cup {Nil}]

ServerTyped ==
  /\ local \in [number : Nat, up : BOOLEAN, data : BOOLEAN, upkeep : Pages \cup {Nil}]
  /\ source \in [Roots -> {"absent", "enabled", "paused"}] /\ evidence \subseteq Roots
  /\ runs \in Seq(RunRows) /\ jobMap \in Seq(JobRows) /\ chances \in [clicks : Nat, stops : Nat]

\* The last run of its source in this service.
Last(r) ==
  /\ runs[r].service = local.number
  /\ \A q \in DOMAIN runs : runs[q].source = runs[r].source /\ runs[q].service = local.number => q <= r

\* A run that is not over is the last of its source, in a service that runs with
\* its data, and what it reads is configured; what is not has no events.
RunsTrue ==
  /\ \A r \in DOMAIN runs : runs[r].service <= local.number
  /\ \A q \in DOMAIN runs : runs[q].service = local.number =>
       \E r \in DOMAIN runs : runs[r].source = runs[q].source /\ Last(r)
  /\ \A r \in DOMAIN runs : Going(r) => local.up /\ local.data /\ Last(r)
  /\ \A r \in DOMAIN runs : runs[r].state = "running" => source[runs[r].source] # "absent"
  /\ \A s \in Roots : source[s] = "absent" => s \notin evidence

\* A job has the result of its run, if that is over, and while it is kept a run
\* without a result goes on.
JobTrue(k) ==
  /\ k.run = Nil => k.result = "failed"
  /\ k.run # Nil => k.run \in DOMAIN runs /\ runs[k.run].source = k.source
  /\ k.run # Nil /\ k.result # Nil => ~Going(k.run) /\ runs[k.run].state = k.result
  /\ k.result = Nil /\ k.kept => Going(k.run)

JobsTrue == \A j \in DOMAIN jobMap : JobTrue(jobMap[j])

ServerTrue == ServerTyped /\ RunsTrue /\ JobsTrue

Ended(j) == jobMap[j].run = Nil \/ ~Going(jobMap[j].run)
Erased == ~local.data /\ evidence = {}

\* What a page shows.
ViewTrue(v) ==
  /\ v.knows <= local.number
  /\ v.job # Nil => v.job \in DOMAIN jobMap /\ v.followed = v.job
  /\ v.status \in {"completed", "partially completed", "cancelled", "failed"} =>
       /\ v.followed \in DOMAIN jobMap /\ jobMap[v.followed].result # Nil
       /\ v.status = Words(jobMap[v.followed].result)
  /\ v.deleted # Nil => v.deleted <= local.number
  /\ v.deleted = local.number => Erased

\* The poll is about the job the page follows.
PollTrue(r, v) ==
  /\ r.stage # "idle" => v.job # Nil /\ r.job = v.job
  /\ r.stage = "answered" =>
       \/ r.answer \in {Failure, "queued", "running"}
       \/ jobMap[r.job].result # Nil /\ r.answer = jobMap[r.job].result

\* A source is added while no job is followed, and a cancellation waits for the
\* run of its job.
FormTrue(r, v) ==
  /\ r.stage = "sent" => r.waits = Nil
  /\ r.stage # "idle" /\ r.kind \in {"save", "index"} => v.job = Nil
  /\ r.stage # "idle" /\ r.kind \in {"save", "index", "remove"} => r.source \in Roots
  /\ r.stage # "idle" /\ r.kind = "cancel" =>
       /\ r.job \in DOMAIN jobMap
       /\ r.stage = "waiting" => IF r.waits = Nil THEN Ended(r.job) ELSE r.waits = jobMap[r.job].run
       /\ r.stage = "answered" /\ r.answer = "ok" => Ended(r.job)
  /\ r.stage = "answered" /\ r.kind = "index" /\ r.answer # Failure => r.id \in DOMAIN jobMap

DeletionTrue(r) ==
  r.stage # "idle" =>
    /\ r.service \in Nat /\ r.service <= local.number
    /\ r.stage = "answered" /\ r.answer = "ok" /\ r.service = local.number => Erased

PageTrue(v, req) ==
  /\ ViewTrue(v) /\ PollTrue(req["poll"], v) /\ FormTrue(req["sources"], v)
  /\ DeletionTrue(req["delete"])

PagesTrue ==
  /\ view \in [Pages -> ViewRows] /\ request \in [Pages -> [Controls -> AskedRows]]
  /\ \A p \in Pages : PageTrue(view[p], request[p])

SettingsInv == ServerTrue /\ PagesTrue

-----------------------------------------------------------------------------
(* The server.                                                               *)

LEMMA RunUpdates ==
  ASSUME NEW x \in RunRows, NEW state \in Standings
  PROVE  /\ [x EXCEPT !.state = state] \in RunRows
         /\ [x EXCEPT !.state = state].state = state
         /\ [x EXCEPT !.state = state].source = x.source /\ [x EXCEPT !.state = state].service = x.service
         /\ [x EXCEPT !.aborted = TRUE] \in RunRows
         /\ [x EXCEPT !.aborted = TRUE].state = x.state
         /\ [x EXCEPT !.aborted = TRUE].source = x.source /\ [x EXCEPT !.aborted = TRUE].service = x.service
BY DEF RunRows

LEMMA JobUpdates ==
  ASSUME NEW x \in JobRows, NEW result \in Standings
  PROVE  /\ [x EXCEPT !.result = result] \in JobRows
         /\ [x EXCEPT !.result = result].result = result /\ [x EXCEPT !.result = result].run = x.run
         /\ [x EXCEPT !.result = result].source = x.source
         /\ [x EXCEPT !.kept = FALSE] \in JobRows
         /\ [x EXCEPT !.kept = FALSE].result = x.result /\ [x EXCEPT !.kept = FALSE].run = x.run
         /\ [x EXCEPT !.kept = FALSE].source = x.source /\ ~[x EXCEPT !.kept = FALSE].kept
BY DEF JobRows

\* A run that goes on is the current one of its source.
LEMMA GoingIsCurrent ==
  ASSUME ServerTrue, NEW r \in DOMAIN runs, Going(r)
  PROVE  /\ runs[r].source \in Roots /\ CurrentRun(runs[r].source) = r /\ Busy(runs[r].source)
         /\ local.up /\ local.data
<1>1. r \in Nat /\ runs[r] \in RunRows
  BY DEF ServerTrue, ServerTyped
<1>2. local.up /\ local.data /\ r \in RunsOf(runs[r].source) /\ \A q \in RunsOf(runs[r].source) : q <= r
  BY DEF ServerTrue, RunsTrue, Last, RunsOf
<1>3. \A q \in RunsOf(runs[r].source) : q \in Nat
  BY DEF ServerTrue, ServerTyped, RunsOf
<1>4. \A q \in RunsOf(runs[r].source) : (\A o \in RunsOf(runs[r].source) : o <= q) => q = r
  BY <1>1, <1>2, <1>3
<1>5. CurrentRun(runs[r].source) = r
  BY <1>2, <1>4 DEF CurrentRun
<1> QED  BY <1>1, <1>2, <1>5, SettingsAssumption DEF Busy, RunRows

\* The current run of a busy source goes on.
LEMMA BusyRunGoes ==
  ASSUME ServerTrue, NEW s \in Roots, Busy(s)
  PROVE  /\ CurrentRun(s) \in DOMAIN runs /\ CurrentRun(s) \in Nat /\ Going(CurrentRun(s))
         /\ runs[CurrentRun(s)].source = s
<1>1. RunsOf(s) # {}
  BY DEF Busy, CurrentRun
<1>2. \E r \in RunsOf(s) : \A q \in RunsOf(s) : q <= r
  BY <1>1 DEF ServerTrue, RunsTrue, Last, RunsOf
<1>3. CurrentRun(s) \in RunsOf(s)
  BY <1>1, <1>2 DEF CurrentRun
<1> QED  BY <1>3 DEF Busy, RunsOf, ServerTrue, ServerTyped

\* Where nothing is busy, no run goes on.
LEMMA SettledStops ==
  ASSUME ServerTrue, Settled
  PROVE  \A r \in DOMAIN runs : ~Going(r)
BY GoingIsCurrent DEF Settled

LEMMA JobTyped ==
  ASSUME ServerTrue, NEW j \in DOMAIN jobMap
  PROVE  j \in Nat /\ jobMap[j] \in JobRows /\ JobTrue(jobMap[j])
BY DEF ServerTrue, ServerTyped, JobsTrue

\* What the pages rely on when the server takes a step.
Onward ==
  /\ \A j \in DOMAIN jobMap :
       /\ j \in DOMAIN jobMap' /\ jobMap'[j].run = jobMap[j].run
       /\ jobMap[j].result # Nil => jobMap'[j].result = jobMap[j].result
  /\ \A r \in DOMAIN runs : ~Going(r) => ~Going(r)'
  /\ local'.number \in Nat /\ local.number <= local'.number
  /\ local'.number = local.number /\ Erased => Erased'

\* No run is added: runs are aborted, read on or end.
LEMMA RunsChange ==
  ASSUME ServerTrue, ServerTyped', Len(runs') = Len(runs), local'.number = local.number,
         \A r \in DOMAIN runs : runs'[r].source = runs[r].source /\ runs'[r].service = runs[r].service,
         \A r \in DOMAIN runs : Going(r)' => Going(r) /\ local'.up /\ local'.data,
         \A r \in DOMAIN runs : runs'[r].state = "running" => source'[runs[r].source] # "absent",
         \A s \in Roots : source'[s] = "absent" => s \notin evidence'
  PROVE  RunsTrue'
<1>1. DOMAIN runs' = DOMAIN runs
  BY DEF ServerTrue, ServerTyped
<1>2. \A r \in DOMAIN runs : Last(r) => Last(r)'
  BY <1>1 DEF Last
<1>3. \A r \in DOMAIN runs' : runs'[r].service <= local'.number
  BY <1>1 DEF ServerTrue, RunsTrue
<1>4. \A q \in DOMAIN runs' : runs'[q].service = local'.number =>
        \E r \in DOMAIN runs' : runs'[r].source = runs'[q].source /\ Last(r)'
  BY <1>1, <1>2 DEF ServerTrue, RunsTrue
<1>5. \A r \in DOMAIN runs' : Going(r)' => local'.up /\ local'.data /\ Last(r)'
  BY <1>1, <1>2 DEF ServerTrue, RunsTrue
<1> QED  BY <1>1, <1>3, <1>4, <1>5 DEF RunsTrue

\* No run ends: jobs stay true whether or not they are kept.
LEMMA JobsStay ==
  ASSUME ServerTrue, ServerTyped', Len(runs') = Len(runs), Len(jobMap') = Len(jobMap),
         \A r \in DOMAIN runs : runs'[r].source = runs[r].source,
         \A r \in DOMAIN runs : runs'[r].state = runs[r].state \/ (Going(r) /\ Going(r)'),
         \A j \in DOMAIN jobMap :
           /\ jobMap'[j].source = jobMap[j].source /\ jobMap'[j].run = jobMap[j].run
           /\ jobMap'[j].result = jobMap[j].result /\ (jobMap'[j].kept => jobMap[j].kept)
  PROVE  /\ JobsTrue'
         /\ \A j \in DOMAIN jobMap : j \in DOMAIN jobMap'
         /\ \A r \in DOMAIN runs : ~Going(r) => ~Going(r)'
<1>1. DOMAIN runs' = DOMAIN runs /\ DOMAIN jobMap' = DOMAIN jobMap
  BY DEF ServerTrue, ServerTyped
<1>2. \A r \in DOMAIN runs : Going(r)' <=> Going(r)
  BY DEF Going
<1>3. ASSUME NEW j \in DOMAIN jobMap, NEW k, k = jobMap'[j] PROVE JobTrue(k)'
  <2>1. JobTrue(jobMap[j])
    BY DEF ServerTrue, JobsTrue
  <2>2. Nil # "failed"
    BY SettingsAssumption DEF Standings
  <2>3. k.source = jobMap[j].source /\ k.run = jobMap[j].run /\ k.result = jobMap[j].result /\ (k.kept => jobMap[j].kept)
    BY <1>3
  <2>4. k.run # Nil => k.run \in DOMAIN runs
    BY <2>1, <2>3 DEF JobTrue
  <2>5. k.run # Nil =>
          k.run \in DOMAIN runs' /\ runs'[k.run].source = k.source /\ (Going(k.run)' <=> Going(k.run))
    BY <1>1, <1>2, <2>1, <2>3, <2>4 DEF JobTrue
  <2>6. k.run # Nil /\ k.result # Nil => ~Going(k.run)' /\ runs'[k.run].state = k.result
    BY <2>1, <2>3, <2>4, <2>5 DEF JobTrue
  <2>7. k.result = Nil /\ k.kept => Going(k.run)'
    BY <2>1, <2>2, <2>3, <2>5 DEF JobTrue
  <2>8. k.run = Nil => k.result = "failed"
    BY <2>1, <2>3 DEF JobTrue
  <2> QED  BY <2>5, <2>6, <2>7, <2>8 DEF JobTrue
<1>4. \A j \in DOMAIN jobMap' : \A k : k = jobMap'[j] => JobTrue(k)'
  BY <1>1, <1>3
<1>5. JobsTrue'
  BY <1>4 DEF JobsTrue, JobTrue
<1> QED  BY <1>1, <1>2, <1>5

\* refresh: the run that is joined, or the one that is new, goes on.
LEMMA RefreshKeeps ==
  ASSUME ServerTrue, NEW s \in Roots, local.up, local.data, runs' = Refreshed(s), NEW n, n = Joined(s),
         UNCHANGED <<local, source, evidence>>
  PROVE  /\ runs' \in Seq(RunRows) /\ RunsTrue'
         /\ \A k : JobTrue(k) => JobTrue(k)'
         /\ n \in Nat /\ n \in DOMAIN runs' /\ Going(n)' /\ runs'[n].source = s
         /\ \A r \in DOMAIN runs : ~Going(r) => ~Going(r)'
<1>1. CASE Busy(s)
  <2>1. UNCHANGED runs /\ n = CurrentRun(s)
    BY <1>1 DEF Refreshed, Joined
  <2>2. RunsTrue'
    BY <2>1 DEF ServerTrue, RunsTrue, Last, Going
  <2>3. \A k : JobTrue(k) => JobTrue(k)'
    BY <2>1 DEF JobTrue, Going
  <2>4. n \in DOMAIN runs /\ n \in Nat /\ Going(n) /\ runs[n].source = s
    BY <1>1, <2>1, BusyRunGoes
  <2> QED  BY <2>1, <2>2, <2>3, <2>4 DEF ServerTrue, ServerTyped, Going
<1>2. CASE ~Busy(s)
  <2> DEFINE row == [source |-> s, state |-> "queued", aborted |-> FALSE, service |-> local.number]
  <2>1. runs' = Append(runs, row) /\ n = Len(runs) + 1
    BY <1>2 DEF Refreshed, Joined
  <2>2. row \in RunRows /\ runs \in Seq(RunRows)
    BY DEF RunRows, Standings, ServerTrue, ServerTyped
  <2>3. /\ runs' \in Seq(RunRows) /\ DOMAIN runs' = DOMAIN runs \cup {n} /\ n \in Nat
        /\ \A r \in DOMAIN runs : runs'[r] = runs[r] /\ r < n
        /\ runs'[n] = row
    BY <2>1, <2>2
  <2>4. \A r \in DOMAIN runs : Going(r)' <=> Going(r)
    BY <2>3 DEF Going
  <2>5. Going(n)' /\ Last(n)' /\ runs'[n].source = s
    <3>1. \A q \in DOMAIN runs' : q <= n
      BY <2>1, <2>2, <2>3
    <3> QED  BY <2>3, <3>1 DEF Going, Last
  <2>6. ASSUME NEW r \in DOMAIN runs, Last(r), runs[r].source # s PROVE Last(r)'
    BY <2>3, <2>6 DEF Last
  <2>7. \A r \in DOMAIN runs : Going(r) => runs[r].source # s
    BY <1>2, GoingIsCurrent
  <2>8. \A r \in DOMAIN runs' : runs'[r].service <= local'.number
    BY <2>3 DEF ServerTrue, RunsTrue, ServerTyped
  <2>9. \A q \in DOMAIN runs' : runs'[q].service = local'.number =>
          \E r \in DOMAIN runs' : runs'[r].source = runs'[q].source /\ Last(r)'
    <3>1. ASSUME NEW q \in DOMAIN runs', runs'[q].service = local'.number, runs'[q].source # s
          PROVE  \E r \in DOMAIN runs' : runs'[r].source = runs'[q].source /\ Last(r)'
      <4>1. q \in DOMAIN runs /\ runs[q].service = local.number /\ runs[q].source # s
        BY <2>3, <3>1
      <4>2. PICK r \in DOMAIN runs : runs[r].source = runs[q].source /\ Last(r)
        BY <4>1 DEF ServerTrue, RunsTrue
      <4> QED  BY <2>3, <2>6, <4>1, <4>2
    <3> QED  BY <2>3, <2>5, <3>1
  <2>10. \A r \in DOMAIN runs' : Going(r)' => local'.up /\ local'.data /\ Last(r)'
    <3>1. \A r \in DOMAIN runs : Going(r) => Last(r)
      BY DEF ServerTrue, RunsTrue
    <3> QED  BY <2>3, <2>4, <2>5, <2>6, <2>7, <3>1
  <2>11. RunsTrue'
    BY <2>3, <2>8, <2>9, <2>10 DEF ServerTrue, RunsTrue
  <2>12. \A k : JobTrue(k) => JobTrue(k)'
    BY <2>3, <2>4, SettingsAssumption DEF JobTrue, Standings
  <2> QED  BY <2>3, <2>4, <2>5, <2>11, <2>12
<1> QED  BY <1>1, <1>2

\* The end of a run, with the jobs that record it.
LEMMA EndKeeps ==
  ASSUME ServerTrue, NEW n \in DOMAIN runs, RunEnds(n)
  PROVE  ServerTrue' /\ Onward
<1>1. PICK outcome \in Outcomes(n) :
        /\ runs' = [runs EXCEPT ![n].state = outcome]
        /\ jobMap' = [j \in DOMAIN jobMap |->
             IF jobMap[j].run = n THEN [jobMap[j] EXCEPT !.result = outcome] ELSE jobMap[j]]
  BY DEF RunEnds
<1>2. Going(n) /\ UNCHANGED <<local, source, evidence, chances>>
  BY DEF RunEnds, database
<1>3. outcome \in Standings \ {"queued", "running", "lost"}
  BY DEF Outcomes, Standings
<1>4. runs \in Seq(RunRows) /\ jobMap \in Seq(JobRows) /\ n \in Nat
  BY DEF ServerTrue, ServerTyped
<1>5. /\ runs' \in Seq(RunRows) /\ Len(runs') = Len(runs) /\ DOMAIN runs' = DOMAIN runs
      /\ runs'[n] = [runs[n] EXCEPT !.state = outcome]
      /\ \A r \in DOMAIN runs : r # n => runs'[r] = runs[r]
  <2>1. [runs[n] EXCEPT !.state = outcome] \in RunRows
    <3>1. runs[n] \in RunRows /\ outcome \in Standings
      BY <1>3, <1>4
    <3> QED  BY <3>1, RunUpdates
  <2> QED  BY <1>1, <1>4, <2>1
<1>6. /\ jobMap' \in Seq(JobRows) /\ Len(jobMap') = Len(jobMap) /\ DOMAIN jobMap' = DOMAIN jobMap
      /\ \A j \in DOMAIN jobMap :
           jobMap'[j] = IF jobMap[j].run = n THEN [jobMap[j] EXCEPT !.result = outcome] ELSE jobMap[j]
  <2>1. \A j \in DOMAIN jobMap : [jobMap[j] EXCEPT !.result = outcome] \in JobRows /\ jobMap[j] \in JobRows
    <3>1. \A j \in DOMAIN jobMap : jobMap[j] \in JobRows /\ outcome \in Standings
      BY <1>3, <1>4
    <3> QED  BY <3>1, JobUpdates, ZenonT(30)
  <2> QED  BY <1>1, <1>4, <2>1
<1>7. ServerTyped'
  BY <1>2, <1>5, <1>6 DEF ServerTrue, ServerTyped
<1>8. /\ ~Going(n)'
      /\ \A r \in DOMAIN runs : r # n => (Going(r)' <=> Going(r)) /\ runs'[r].state = runs[r].state
      /\ \A r \in DOMAIN runs : runs'[r].source = runs[r].source /\ runs'[r].service = runs[r].service
  <2>1. runs[n] \in RunRows
    BY <1>4
  <2> QED  BY <1>3, <1>5, <2>1 DEF Going, RunRows
<1>9. RunsTrue'
  <2>1. \A r \in DOMAIN runs : Going(r)' => Going(r) /\ local'.up /\ local'.data
    BY <1>2, <1>8 DEF ServerTrue, RunsTrue
  <2>2. \A r \in DOMAIN runs : runs'[r].state = "running" => source'[runs[r].source] # "absent"
    BY <1>2, <1>8 DEF ServerTrue, RunsTrue, Going
  <2>3. \A s \in Roots : source'[s] = "absent" => s \notin evidence'
    BY <1>2 DEF ServerTrue, RunsTrue
  <2> QED  BY <1>2, <1>5, <1>7, <1>8, <2>1, <2>2, <2>3, RunsChange
<1>10. ASSUME NEW j \in DOMAIN jobMap, NEW k, k = jobMap'[j]
       PROVE  JobTrue(k)' /\ k.run = jobMap[j].run /\ (jobMap[j].result # Nil => k.result = jobMap[j].result)
  <2>1. jobMap[j] \in JobRows /\ JobTrue(jobMap[j])
    BY JobTyped
  <2>2. CASE jobMap[j].run = n
    <3>1. k = [jobMap[j] EXCEPT !.result = outcome] /\ n # Nil
      BY <1>4, <1>6, <1>10, <2>2, SettingsAssumption
    <3>2. k.run = n /\ k.source = jobMap[j].source /\ k.result = outcome
      BY <2>1, <2>2, <3>1 DEF JobRows
    <3>3. jobMap[j].result = Nil
      BY <1>2, <2>1, <2>2, <3>1 DEF JobTrue
    <3>4. runs'[n].state = outcome /\ runs'[n].source = k.source
      BY <1>4, <1>5, <1>8, <2>1, <2>2, <3>1, <3>2 DEF JobTrue, RunRows
    <3>5. outcome # Nil
      BY <1>3, SettingsAssumption
    <3> QED  BY <1>5, <1>8, <2>2, <3>1, <3>2, <3>3, <3>4, <3>5 DEF JobTrue
  <2>3. CASE jobMap[j].run # n
    BY <1>5, <1>6, <1>8, <1>10, <2>1, <2>3, SettingsAssumption DEF JobTrue, Standings
  <2> QED  BY <2>2, <2>3
<1>11. JobsTrue'
  <2>1. \A j \in DOMAIN jobMap' : \A k : k = jobMap'[j] => JobTrue(k)'
    BY <1>6, <1>10
  <2> QED  BY <2>1 DEF JobsTrue, JobTrue
<1>12. Onward
  BY <1>2, <1>6, <1>8, <1>10 DEF Onward, Erased, ServerTrue, ServerTyped
<1> QED  BY <1>7, <1>9, <1>11, <1>12 DEF ServerTrue

\* A step that adds nothing and ends nothing.
LEMMA ServerChange ==
  ASSUME ServerTrue, ServerTyped', Len(runs') = Len(runs), Len(jobMap') = Len(jobMap),
         local'.number = local.number,
         \A r \in DOMAIN runs : runs'[r].source = runs[r].source /\ runs'[r].service = runs[r].service,
         \A r \in DOMAIN runs : runs'[r].state = runs[r].state \/ (Going(r) /\ Going(r)'),
         \A r \in DOMAIN runs : Going(r) => local'.up /\ local'.data,
         \A r \in DOMAIN runs : runs'[r].state = "running" => source'[runs[r].source] # "absent",
         \A s \in Roots : source'[s] = "absent" => s \notin evidence',
         \A j \in DOMAIN jobMap :
           /\ jobMap'[j].source = jobMap[j].source /\ jobMap'[j].run = jobMap[j].run
           /\ jobMap'[j].result = jobMap[j].result /\ (jobMap'[j].kept => jobMap[j].kept),
         Erased => Erased'
  PROVE  ServerTrue' /\ Onward
<1>1. \A r \in DOMAIN runs : Going(r)' <=> Going(r)
  BY DEF Going
<1>2. \A r \in DOMAIN runs : Going(r)' => Going(r) /\ local'.up /\ local'.data
  BY <1>1
<1>3. RunsTrue'
  BY <1>2, RunsChange
<1>4. /\ JobsTrue'
      /\ \A j \in DOMAIN jobMap : j \in DOMAIN jobMap'
      /\ \A r \in DOMAIN runs : ~Going(r) => ~Going(r)'
  BY JobsStay
<1>5. Onward
  BY <1>4 DEF Onward, ServerTrue, ServerTyped
<1> QED  BY <1>3, <1>4, <1>5 DEF ServerTrue

LEMMA RowsTyped ==
  ASSUME ServerTrue
  PROVE  /\ runs \in Seq(RunRows) /\ jobMap \in Seq(JobRows)
         /\ \A r \in DOMAIN runs : r \in Nat /\ runs[r] \in RunRows
         /\ \A j \in DOMAIN jobMap : j \in Nat /\ jobMap[j] \in JobRows
         /\ \A r \in DOMAIN runs : Going(r) => local.up /\ local.data
         /\ \A r \in DOMAIN runs : runs[r].state = "running" => source[runs[r].source] # "absent"
         /\ \A s \in Roots : source[s] = "absent" => s \notin evidence
BY DEF ServerTrue, ServerTyped, RunsTrue

\* Runs are aborted.
LEMMA AbortKeeps ==
  ASSUME ServerTrue, NEW these, runs' = AbortedRuns(these), NEW upkeep \in Pages \cup {Nil},
         local' = local \/ local' = [local EXCEPT !.upkeep = upkeep],
         UNCHANGED <<jobMap, source, evidence, chances>>
  PROVE  ServerTrue' /\ Onward
<1>1. /\ local' \in [number : Nat, up : BOOLEAN, data : BOOLEAN, upkeep : Pages \cup {Nil}]
      /\ local'.number = local.number /\ local'.up = local.up /\ local'.data = local.data
  BY DEF ServerTrue, ServerTyped
<1>2. \A r \in DOMAIN runs :
        runs'[r] = IF r \in these THEN [runs[r] EXCEPT !.aborted = TRUE] ELSE runs[r]
  BY DEF AbortedRuns
<1>3. \A r \in DOMAIN runs :
        /\ runs'[r] \in RunRows /\ runs'[r].state = runs[r].state
        /\ runs'[r].source = runs[r].source /\ runs'[r].service = runs[r].service
  <2>1. ASSUME NEW r \in DOMAIN runs
        PROVE  /\ runs'[r] \in RunRows /\ runs'[r].state = runs[r].state
               /\ runs'[r].source = runs[r].source /\ runs'[r].service = runs[r].service
    <3>1. runs[r] \in RunRows /\ runs[r].state \in Standings
      BY RowsTyped DEF RunRows
    <3>2. CASE r \in these
      BY <1>2, <3>1, <3>2, RunUpdates
    <3>3. CASE r \notin these
      BY <1>2, <3>1, <3>3
    <3> QED  BY <3>2, <3>3
  <2> QED  BY <2>1
<1>4. runs' \in Seq(RunRows) /\ Len(runs') = Len(runs)
  BY <1>3, RowsTyped DEF AbortedRuns
<1>5. ServerTyped'
  BY <1>1, <1>4 DEF ServerTrue, ServerTyped
<1>6. Erased => Erased'
  BY <1>1 DEF Erased
<1> QED  BY <1>1, <1>3, <1>4, <1>5, <1>6, RowsTyped, ServerChange

LEMMA ReadKeeps ==
  ASSUME ServerTrue, NEW n \in DOMAIN runs, StartReading(n)
  PROVE  ServerTrue' /\ Onward
<1>1. /\ runs[n].state = "queued" /\ source[runs[n].source] = "enabled"
      /\ runs' = [runs EXCEPT ![n].state = "running"]
      /\ UNCHANGED <<local, jobMap, source, evidence, chances>>
  BY DEF StartReading, database
<1>2. /\ [runs[n] EXCEPT !.state = "running"] \in RunRows
      /\ [runs[n] EXCEPT !.state = "running"].state = "running"
      /\ [runs[n] EXCEPT !.state = "running"].source = runs[n].source
      /\ [runs[n] EXCEPT !.state = "running"].service = runs[n].service
  <2>1. runs[n] \in RunRows /\ "running" \in Standings
    BY RowsTyped DEF Standings
  <2> QED  BY <2>1, RunUpdates
<1>3. /\ runs' \in Seq(RunRows) /\ Len(runs') = Len(runs)
      /\ runs'[n] = [runs[n] EXCEPT !.state = "running"]
      /\ \A r \in DOMAIN runs : r # n => runs'[r] = runs[r]
  BY <1>1, <1>2, RowsTyped
<1>4. \A r \in DOMAIN runs :
        /\ runs'[r].source = runs[r].source /\ runs'[r].service = runs[r].service
        /\ runs'[r].state = runs[r].state \/ (Going(r) /\ Going(r)')
        /\ runs'[r].state = "running" => source'[runs[r].source] # "absent"
  <2>1. Going(n) /\ Going(n)'
    BY <1>1, <1>2, <1>3 DEF Going
  <2> QED  BY <1>1, <1>2, <1>3, <2>1, RowsTyped
<1>5. ServerTyped'
  BY <1>1, <1>3 DEF ServerTrue, ServerTyped
<1>6. Erased => Erased'
  BY <1>1 DEF Erased
<1> QED  BY <1>1, <1>3, <1>4, <1>5, <1>6, RowsTyped, ServerChange

\* A run is read into a database that is there.
LEMMA EventsKeep ==
  ASSUME ServerTrue, NEW n \in DOMAIN runs, StoreEvents(n)
  PROVE  ServerTrue' /\ Onward
<1>1. /\ runs[n].state = "running" /\ evidence' = evidence \cup {runs[n].source}
      /\ UNCHANGED <<local, runs, jobMap, source, chances>>
  BY DEF StoreEvents, server
<1>2. runs[n].source \in Roots /\ source[runs[n].source] # "absent"
  BY <1>1, RowsTyped DEF RunRows
<1>3. local.data
  BY <1>1, RowsTyped DEF Going
<1>4. ServerTyped'
  BY <1>1, <1>2 DEF ServerTrue, ServerTyped
<1>5. Erased => Erased'
  BY <1>3 DEF Erased
<1>6. \A s \in Roots : source'[s] = "absent" => s \notin evidence'
  BY <1>1, <1>2, RowsTyped
<1> QED  BY <1>1, <1>4, <1>5, <1>6, RowsTyped, ServerChange

LEMMA DropKeeps ==
  ASSUME ServerTrue, NEW n \in DOMAIN jobMap, jobMap' = [jobMap EXCEPT ![n].kept = FALSE],
         UNCHANGED <<local, runs, source, evidence, chances>>
  PROVE  ServerTrue' /\ Onward
<1>1. /\ [jobMap[n] EXCEPT !.kept = FALSE] \in JobRows /\ ~[jobMap[n] EXCEPT !.kept = FALSE].kept
      /\ [jobMap[n] EXCEPT !.kept = FALSE].result = jobMap[n].result
      /\ [jobMap[n] EXCEPT !.kept = FALSE].run = jobMap[n].run
      /\ [jobMap[n] EXCEPT !.kept = FALSE].source = jobMap[n].source
  <2>1. jobMap[n] \in JobRows /\ "failed" \in Standings
    BY RowsTyped DEF Standings
  <2> QED  BY <2>1, JobUpdates
<1>2. /\ jobMap' \in Seq(JobRows) /\ Len(jobMap') = Len(jobMap)
      /\ jobMap'[n] = [jobMap[n] EXCEPT !.kept = FALSE]
      /\ \A j \in DOMAIN jobMap : j # n => jobMap'[j] = jobMap[j]
  BY <1>1, RowsTyped
<1>3. \A j \in DOMAIN jobMap :
        /\ jobMap'[j].source = jobMap[j].source /\ jobMap'[j].run = jobMap[j].run
        /\ jobMap'[j].result = jobMap[j].result /\ (jobMap'[j].kept => jobMap[j].kept)
  BY <1>1, <1>2
<1>4. ServerTyped'
  BY <1>2 DEF ServerTrue, ServerTyped
<1>5. Erased => Erased'
  BY DEF Erased
<1> QED  BY <1>2, <1>3, <1>4, <1>5, RowsTyped, ServerChange

\* Rows and events of sources change, and the service may close its store.
LEMMA DataKeeps ==
  ASSUME ServerTrue, local' \in [number : Nat, up : BOOLEAN, data : BOOLEAN, upkeep : Pages \cup {Nil}],
         local'.number = local.number, local'.up = local.up, local'.data => local.data,
         source' \in [Roots -> {"absent", "enabled", "paused"}], evidence' \subseteq evidence,
         UNCHANGED <<runs, jobMap, chances>>,
         \A r \in DOMAIN runs : Going(r) => local'.data,
         \A r \in DOMAIN runs : runs[r].state = "running" => source'[runs[r].source] # "absent",
         \A s \in Roots : source'[s] = "absent" => s \notin evidence'
  PROVE  ServerTrue' /\ Onward
<1>1. ServerTyped'
  BY DEF ServerTrue, ServerTyped
<1>2. Erased => Erased'
  BY DEF Erased
<1> QED  BY <1>1, <1>2, RowsTyped, ServerChange

\* The service dies with its runs and its map of jobs.
LEMMA StopKeeps ==
  ASSUME ServerTrue, ServiceStops
  PROVE  ServerTrue' /\ Onward
<1>1. /\ chances.stops > 0 /\ chances' = [chances EXCEPT !.stops = @ - 1]
      /\ local' = [[local EXCEPT !.upkeep = Nil] EXCEPT !.up = FALSE]
      /\ runs' = [r \in DOMAIN runs |-> IF Going(r) THEN [runs[r] EXCEPT !.state = "lost"] ELSE runs[r]]
      /\ jobMap' = [j \in DOMAIN jobMap |-> [jobMap[j] EXCEPT !.kept = FALSE]]
      /\ UNCHANGED <<source, evidence>>
  BY DEF ServiceStops, Unpaused, database
<1>2. /\ local' \in [number : Nat, up : BOOLEAN, data : BOOLEAN, upkeep : Pages \cup {Nil}]
      /\ local'.number = local.number /\ local'.data = local.data
      /\ chances' \in [clicks : Nat, stops : Nat]
  <2>1. /\ local \in [number : Nat, up : BOOLEAN, data : BOOLEAN, upkeep : Pages \cup {Nil}]
        /\ chances \in [clicks : Nat, stops : Nat]
    BY DEF ServerTrue, ServerTyped
  <2>2. local' \in [number : Nat, up : BOOLEAN, data : BOOLEAN, upkeep : Pages \cup {Nil}]
    BY <1>1, <2>1
  <2>3. local'.number = local.number /\ local'.data = local.data
    BY <1>1, <2>1
  <2>4. chances.stops - 1 \in Nat
    BY <1>1, <2>1
  <2> QED  BY <1>1, <2>1, <2>2, <2>3, <2>4
<1>3. \A r \in DOMAIN runs :
        /\ runs'[r] \in RunRows /\ ~Going(r)' /\ (~Going(r) => runs'[r].state = runs[r].state)
        /\ runs'[r].source = runs[r].source /\ runs'[r].service = runs[r].service
  <2>1. ASSUME NEW r \in DOMAIN runs
        PROVE  /\ runs'[r] \in RunRows /\ ~Going(r)' /\ (~Going(r) => runs'[r].state = runs[r].state)
               /\ runs'[r].source = runs[r].source /\ runs'[r].service = runs[r].service
    <3>1. runs[r] \in RunRows /\ "lost" \in Standings
      BY RowsTyped DEF Standings
    <3>2. runs'[r] = IF Going(r) THEN [runs[r] EXCEPT !.state = "lost"] ELSE runs[r]
      BY <1>1
    <3>3. CASE Going(r)
      <4>1. runs'[r] \in RunRows /\ runs'[r].state = "lost"
            /\ runs'[r].source = runs[r].source /\ runs'[r].service = runs[r].service
        <5>1. /\ [runs[r] EXCEPT !.state = "lost"] \in RunRows
              /\ [runs[r] EXCEPT !.state = "lost"].state = "lost"
              /\ [runs[r] EXCEPT !.state = "lost"].source = runs[r].source
              /\ [runs[r] EXCEPT !.state = "lost"].service = runs[r].service
          BY <3>1, RunUpdates
        <5> QED  BY <3>2, <3>3, <5>1
      <4> QED  BY <3>3, <4>1 DEF Going
    <3>4. CASE ~Going(r)
      BY <3>1, <3>2, <3>4 DEF Going
    <3> QED  BY <3>3, <3>4
  <2> QED  BY <2>1
<1>4. runs' \in Seq(RunRows) /\ Len(runs') = Len(runs) /\ DOMAIN runs' = DOMAIN runs
  <2>1. runs' = [r \in 1..Len(runs) |-> runs'[r]] /\ Len(runs) \in Nat
    BY <1>1, RowsTyped
  <2>2. \A r \in 1..Len(runs) : runs'[r] \in RunRows
    BY <1>3, RowsTyped
  <2> QED  BY <2>1, <2>2, RowsTyped
<1>5. \A j \in DOMAIN jobMap :
        /\ jobMap'[j] \in JobRows /\ ~jobMap'[j].kept /\ jobMap'[j].result = jobMap[j].result
        /\ jobMap'[j].run = jobMap[j].run /\ jobMap'[j].source = jobMap[j].source
  <2>1. ASSUME NEW j \in DOMAIN jobMap
        PROVE  /\ jobMap'[j] \in JobRows /\ ~jobMap'[j].kept /\ jobMap'[j].result = jobMap[j].result
               /\ jobMap'[j].run = jobMap[j].run /\ jobMap'[j].source = jobMap[j].source
    <3>1. jobMap[j] \in JobRows /\ "failed" \in Standings /\ jobMap'[j] = [jobMap[j] EXCEPT !.kept = FALSE]
      BY <1>1, RowsTyped DEF Standings
    <3> QED  BY <3>1, JobUpdates
  <2> QED  BY <2>1
<1>6. jobMap' \in Seq(JobRows) /\ Len(jobMap') = Len(jobMap) /\ DOMAIN jobMap' = DOMAIN jobMap
  BY <1>1, <1>5, RowsTyped
<1>7. ServerTyped'
  BY <1>1, <1>2, <1>4, <1>6 DEF ServerTrue, ServerTyped
<1>8. RunsTrue'
  <2>1. \A r \in DOMAIN runs : Going(r)' => Going(r) /\ local'.up /\ local'.data
    BY <1>3
  <2>2. \A r \in DOMAIN runs : runs'[r].state = "running" => source'[runs[r].source] # "absent"
    BY <1>3 DEF Going
  <2>3. \A s \in Roots : source'[s] = "absent" => s \notin evidence'
    BY <1>1, RowsTyped
  <2> QED  BY <1>2, <1>3, <1>4, <1>7, <2>1, <2>2, <2>3, RunsChange
<1>9. JobsTrue'
  <2>1. ASSUME NEW j \in DOMAIN jobMap, NEW k, k = jobMap'[j] PROVE JobTrue(k)'
    <3>1. JobTrue(jobMap[j])
      BY JobTyped
    <3> QED  BY <1>3, <1>4, <1>5, <2>1, <3>1 DEF JobTrue
  <2>2. \A j \in DOMAIN jobMap' : \A k : k = jobMap'[j] => JobTrue(k)'
    BY <1>6, <2>1
  <2> QED  BY <2>2 DEF JobsTrue, JobTrue
<1>10. Onward
  <2>1. local.number \in Nat /\ local.number <= local.number
    BY DEF ServerTrue, ServerTyped
  <2>2. Erased => Erased'
    BY <1>1, <1>2 DEF Erased
  <2> QED  BY <1>2, <1>3, <1>5, <1>6, <2>1, <2>2 DEF Onward
<1> QED  BY <1>7, <1>8, <1>9, <1>10 DEF ServerTrue

\* Nothing goes on in a service that was not running.
LEMMA RestartKeeps ==
  ASSUME ServerTrue, ServiceRestarts
  PROVE  ServerTrue' /\ Onward
<1>1. /\ ~local.up
      /\ local' = [number |-> local.number + 1, up |-> TRUE, data |-> TRUE, upkeep |-> Nil]
      /\ UNCHANGED <<runs, jobMap, source, evidence, chances>>
  BY DEF ServiceRestarts, database
<1>2. local.number \in Nat /\ local'.number = local.number + 1
  BY <1>1 DEF ServerTrue, ServerTyped
<1>3. ServerTyped'
  BY <1>1, <1>2 DEF ServerTrue, ServerTyped
<1>4. \A r \in DOMAIN runs : ~Going(r) /\ ~Going(r)' /\ runs[r].service \in Nat /\ runs[r].service <= local.number
  <2>1. \A r \in DOMAIN runs : ~Going(r) /\ runs[r] \in RunRows
    BY <1>1, RowsTyped
  <2>2. \A r \in DOMAIN runs : runs[r].service <= local.number
    BY DEF ServerTrue, RunsTrue
  <2>3. \A r \in DOMAIN runs : ~Going(r)'
    BY <1>1, <2>1 DEF Going
  <2> QED  BY <2>1, <2>2, <2>3 DEF RunRows
<1>5. RunsTrue'
  <2>1. \A r \in DOMAIN runs' : runs'[r].service # local'.number /\ runs'[r].service <= local'.number
    BY <1>1, <1>2, <1>4
  <2>2. \A r \in DOMAIN runs' : runs'[r].state = "running" => source'[runs'[r].source] # "absent"
    BY <1>1, RowsTyped
  <2>3. \A s \in Roots : source'[s] = "absent" => s \notin evidence'
    BY <1>1, RowsTyped
  <2> QED  BY <1>1, <1>4, <2>1, <2>2, <2>3 DEF RunsTrue
<1>6. JobsTrue'
  BY <1>1 DEF ServerTrue, JobsTrue, JobTrue, Going
<1>7. Onward
  BY <1>1, <1>2, <1>4 DEF Onward
<1> QED  BY <1>3, <1>5, <1>6, <1>7 DEF ServerTrue

-----------------------------------------------------------------------------
(* The pages, while the server takes a step.                                 *)

LEMMA ViewOnward ==
  ASSUME ServerTrue, Onward, NEW v \in ViewRows, ViewTrue(v)
  PROVE  ViewTrue(v)'
<1>1. v.knows \in Nat /\ v.deleted \in Nat \cup {Nil} /\ local.number \in Nat /\ Nil \notin Nat
  BY SettingsAssumption DEF ViewRows, ServerTrue, ServerTyped
<1>2. v.knows <= local'.number /\ (v.deleted # Nil => v.deleted <= local'.number)
  <2>1. v.knows <= local.number /\ (v.deleted # Nil => v.deleted <= local.number)
    BY DEF ViewTrue
  <2>2. local'.number \in Nat /\ local.number <= local'.number
    BY DEF Onward
  <2> QED  BY <1>1, <2>1, <2>2
<1>3. v.deleted = local'.number => Erased'
  <2>1. (v.deleted # Nil => v.deleted <= local.number) /\ (v.deleted = local.number => Erased)
    BY DEF ViewTrue
  <2>2. /\ local'.number \in Nat /\ local.number <= local'.number
        /\ local'.number = local.number /\ Erased => Erased'
    BY DEF Onward
  <2>3. v.deleted = local'.number => v.deleted = local.number /\ local.number = local'.number
    BY <1>1, <2>1, <2>2
  <2> QED  BY <2>1, <2>2, <2>3
<1>4. v.job # Nil => v.job \in DOMAIN jobMap' /\ v.followed = v.job
  BY DEF ViewTrue, Onward
<1>5. v.status \in {"completed", "partially completed", "cancelled", "failed"} =>
        /\ v.followed \in DOMAIN jobMap' /\ jobMap'[v.followed].result # Nil
        /\ v.status = Words(jobMap'[v.followed].result)
  BY DEF ViewTrue, Onward, Words
<1> QED  BY <1>2, <1>3, <1>4, <1>5 DEF ViewTrue

LEMMA PollOnward ==
  ASSUME Onward, NEW r, NEW v, ViewTrue(v), PollTrue(r, v)
  PROVE  PollTrue(r, v)'
BY DEF ViewTrue, PollTrue, Onward

LEMMA FormOnward ==
  ASSUME ServerTrue, Onward, NEW r, NEW v, FormTrue(r, v)
  PROVE  FormTrue(r, v)'
<1>1. \A j \in DOMAIN jobMap : Ended(j) => Ended(j)'
  <2>1. ASSUME NEW j \in DOMAIN jobMap, Ended(j) PROVE Ended(j)'
    <3>1. jobMap[j].run # Nil => jobMap[j].run \in DOMAIN runs
      BY JobTyped DEF JobTrue
    <3>2. jobMap[j].run # Nil => ~Going(jobMap[j].run)'
      BY <2>1, <3>1 DEF Ended, Onward, Going
    <3> QED  BY <3>2 DEF Ended, Onward, Going
  <2> QED  BY <2>1
<1>2. \A j \in DOMAIN jobMap : j \in DOMAIN jobMap' /\ jobMap'[j].run = jobMap[j].run
  BY DEF Onward
<1>3. r.stage # "idle" /\ r.kind = "cancel" =>
        /\ r.job \in DOMAIN jobMap' /\ jobMap'[r.job].run = jobMap[r.job].run
        /\ Ended(r.job) => Ended(r.job)'
  BY <1>1, <1>2 DEF FormTrue
<1>4. r.stage = "answered" /\ r.kind = "index" /\ r.answer # Failure => r.id \in DOMAIN jobMap'
  BY <1>2 DEF FormTrue
<1>5. r.stage # "idle" /\ r.kind = "cancel" /\ r.stage = "waiting" =>
        IF r.waits = Nil THEN Ended(r.job)' ELSE r.waits = jobMap'[r.job].run
  BY <1>3 DEF FormTrue
<1>6. r.kind = "cancel" /\ r.stage = "answered" /\ r.answer = "ok" => Ended(r.job)'
  BY <1>3 DEF FormTrue
<1>7. /\ r.stage = "sent" => r.waits = Nil
      /\ r.stage # "idle" /\ r.kind \in {"save", "index"} => v.job = Nil
      /\ r.stage # "idle" /\ r.kind \in {"save", "index", "remove"} => r.source \in Roots
  BY DEF FormTrue
<1> QED  BY <1>3, <1>4, <1>5, <1>6, <1>7 DEF FormTrue

LEMMA DeletionOnward ==
  ASSUME ServerTrue, Onward, NEW r, DeletionTrue(r)
  PROVE  DeletionTrue(r)'
BY DEF DeletionTrue, Onward, ServerTrue, ServerTyped

LEMMA PagesTogether ==
  ASSUME view' \in [Pages -> ViewRows], request' \in [Pages -> [Controls -> AskedRows]],
         \A p \in Pages : \A v, req : v = view'[p] /\ req = request'[p] => PageTrue(v, req)'
  PROVE  PagesTrue'
<1>1. ASSUME NEW p \in Pages PROVE PageTrue(view[p], request[p])'
  <2>1. PICK v, req : v = view'[p] /\ req = request'[p]
    OBVIOUS
  <2>2. PageTrue(v, req)'
    BY <2>1
  <2>3. ViewTrue(view[p])' /\ PollTrue(request[p]["poll"], view[p])'
    BY <2>1, <2>2 DEF PageTrue, ViewTrue, PollTrue
  <2>4. FormTrue(request[p]["sources"], view[p])'
    BY <2>1, <2>2 DEF PageTrue, FormTrue
  <2>5. DeletionTrue(request[p]["delete"])'
    BY <2>1, <2>2 DEF PageTrue, DeletionTrue
  <2> QED  BY <2>3, <2>4, <2>5 DEF PageTrue
<1> QED  BY <1>1 DEF PagesTrue

\* The server takes a step of its own.
LEMMA PagesOnward ==
  ASSUME SettingsInv, Onward, UNCHANGED <<view, request>>
  PROVE  PagesTrue'
<1>1. ASSUME NEW p \in Pages, NEW v, v = view[p], NEW req, req = request[p]
      PROVE  PageTrue(v, req)'
  <2>1. v \in ViewRows /\ PageTrue(v, req)
    BY <1>1 DEF SettingsInv, PagesTrue
  <2> QED  BY <2>1, ViewOnward, PollOnward, FormOnward, DeletionOnward DEF PageTrue, SettingsInv
<1>2. \A p \in Pages : \A v, req : v = view'[p] /\ req = request'[p] => PageTrue(v, req)'
  BY <1>1
<1>3. view' \in [Pages -> ViewRows] /\ request' \in [Pages -> [Controls -> AskedRows]]
  BY DEF SettingsInv, PagesTrue
<1> QED  BY <1>2, <1>3, PagesTogether

\* A page shows v, and one of its controls waits for k.
LEMMA ControlsStep ==
  ASSUME SettingsInv, Onward, NEW p \in Pages, NEW c \in Controls, NEW v \in ViewRows, NEW k \in AskedRows,
         view' = [view EXCEPT ![p] = v], Becomes(p, c, k), ViewTrue(v)',
         NEW poll, poll = IF c = "poll" THEN k ELSE request[p]["poll"], PollTrue(poll, v)',
         NEW form, form = IF c = "sources" THEN k ELSE request[p]["sources"], FormTrue(form, v)',
         NEW deletion, deletion = IF c = "delete" THEN k ELSE request[p]["delete"], DeletionTrue(deletion)'
  PROVE  PagesTrue'
<1>1. request' = [request EXCEPT ![p] = [request[p] EXCEPT ![c] = k]]
  BY DEF Becomes
<1>2. view \in [Pages -> ViewRows] /\ request \in [Pages -> [Controls -> AskedRows]]
  BY DEF SettingsInv, PagesTrue
<1>3. view' \in [Pages -> ViewRows] /\ view'[p] = v /\ \A q \in Pages : q # p => view'[q] = view[q]
  BY <1>2
<1>4. request[p] \in [Controls -> AskedRows] /\ [request[p] EXCEPT ![c] = k] \in [Controls -> AskedRows]
  BY <1>2
<1>5. /\ request' \in [Pages -> [Controls -> AskedRows]]
      /\ request'[p] = [request[p] EXCEPT ![c] = k] /\ \A q \in Pages : q # p => request'[q] = request[q]
  BY <1>1, <1>2, <1>4
<1>6. request'[p]["poll"] = poll /\ request'[p]["sources"] = form /\ request'[p]["delete"] = deletion
  BY <1>4, <1>5 DEF Controls
<1>7. ASSUME NEW q \in Pages, q # p, NEW w, w = view[q], NEW req, req = request[q]
      PROVE  PageTrue(w, req)'
  <2>1. w \in ViewRows /\ PageTrue(w, req)
    BY <1>7 DEF SettingsInv, PagesTrue
  <2> QED  BY <2>1, ViewOnward, PollOnward, FormOnward, DeletionOnward DEF PageTrue, SettingsInv
<1>8. \A w, req : w = view'[p] /\ req = request'[p] => PageTrue(w, req)'
  BY <1>3, <1>6 DEF PageTrue
<1>9. \A q \in Pages : \A w, req : w = view'[q] /\ req = request'[q] => PageTrue(w, req)'
  BY <1>3, <1>5, <1>7, <1>8
<1> QED  BY <1>3, <1>5, <1>9, PagesTogether

\* What the page shows is the same.
LEMMA ControlStep ==
  ASSUME SettingsInv, Onward, NEW p \in Pages, NEW c \in Controls, NEW k \in AskedRows,
         UNCHANGED view, Becomes(p, c, k), NEW v, v = view[p],
         c = "poll" => PollTrue(k, v)', c = "sources" => FormTrue(k, v)', c = "delete" => DeletionTrue(k)'
  PROVE  PagesTrue'
<1>1. /\ v \in ViewRows /\ ViewTrue(v)' /\ view' = [view EXCEPT ![p] = v]
  BY ViewOnward DEF SettingsInv, PagesTrue, PageTrue
<1>2. PICK poll : poll = IF c = "poll" THEN k ELSE request[p]["poll"]
  OBVIOUS
<1>3. PICK form : form = IF c = "sources" THEN k ELSE request[p]["sources"]
  OBVIOUS
<1>4. PICK deletion : deletion = IF c = "delete" THEN k ELSE request[p]["delete"]
  OBVIOUS
<1>5. c # "poll" => ViewTrue(v) /\ PollTrue(poll, v)
  BY <1>2 DEF SettingsInv, PagesTrue, PageTrue
<1>6. c # "sources" => FormTrue(form, v)
  BY <1>3 DEF SettingsInv, PagesTrue, PageTrue
<1>7. c # "delete" => DeletionTrue(deletion)
  BY <1>4 DEF SettingsInv, PagesTrue, PageTrue
<1>8. PollTrue(poll, v)'
  BY <1>2, <1>5, PollOnward
<1>9. FormTrue(form, v)'
  BY <1>3, <1>6, FormOnward DEF SettingsInv
<1>10. DeletionTrue(deletion)'
  BY <1>4, <1>7, DeletionOnward DEF SettingsInv
<1> QED  BY <1>1, <1>2, <1>3, <1>4, <1>8, <1>9, <1>10, ControlsStep

-----------------------------------------------------------------------------
(* Requests.                                                                 *)

LEMMA QuietTyped == Quiet \in AskedRows /\ Quiet.stage = "idle"
BY DEF Quiet, AskedRows, AskedStages, Kinds, AnswerRows

LEMMA PageIsTrue ==
  ASSUME SettingsInv, NEW p \in Pages
  PROVE  /\ view \in [Pages -> ViewRows] /\ view[p] \in ViewRows
         /\ \A c \in Controls : Asked(p, c) \in AskedRows
         /\ ViewTrue(view[p]) /\ PollTrue(Asked(p, "poll"), view[p])
         /\ FormTrue(Asked(p, "sources"), view[p]) /\ DeletionTrue(Asked(p, "delete"))
BY DEF SettingsInv, PagesTrue, PageTrue, Asked

\* A control of a page is told how its request ended.
LEMMA ReplyKeeps ==
  ASSUME SettingsInv, Onward, NEW p \in Pages, NEW c \in Controls, NEW answer \in AnswerRows,
         UNCHANGED view, ~AtStage(p, c, "idle"), Reply(p, c, answer),
         NEW r, r = Asked(p, c),
         c = "poll" =>
           \/ answer \in {Failure, "queued", "running"}
           \/ jobMap'[r.job].result # Nil /\ answer = jobMap'[r.job].result,
         c = "sources" /\ answer # Failure => r.kind # "index" /\ (r.kind = "cancel" => Ended(r.job)'),
         c = "delete" /\ answer = "ok" => Erased'
  PROVE  PagesTrue'
<1>1. PICK k : k = [r EXCEPT !.stage = "answered", !.answer = answer]
  OBVIOUS
<1>2. r \in AskedRows /\ Becomes(p, c, k) /\ r.stage # "idle"
  BY <1>1, PageIsTrue DEF Reply, AtStage
<1>3. /\ k \in AskedRows /\ k.stage = "answered" /\ k.answer = answer /\ k.kind = r.kind
      /\ k.source = r.source /\ k.job = r.job /\ k.service = r.service /\ k.id = r.id
  BY <1>1, <1>2 DEF AskedRows, AskedStages
<1>4. PICK v : v = view[p]
  OBVIOUS
<1>5. ViewTrue(v) /\ ServerTrue
  BY <1>4, PageIsTrue DEF SettingsInv
<1>6. c = "poll" => PollTrue(k, v)'
  <2> SUFFICES ASSUME c = "poll" PROVE PollTrue(k, v)'
    OBVIOUS
  <2>1. PollTrue(r, v)
    BY <1>4, PageIsTrue
  <2> QED  BY <1>2, <1>3, <2>1 DEF PollTrue
<1>7. c = "sources" => FormTrue(k, v)'
  <2> SUFFICES ASSUME c = "sources" PROVE FormTrue(k, v)'
    OBVIOUS
  <2>1. FormTrue(r, v)
    BY <1>4, PageIsTrue
  <2>2. FormTrue(r, v)'
    BY <1>5, <2>1, FormOnward
  <2>3. Failure # "ok"
    BY SettingsAssumption
  <2> QED  BY <1>2, <1>3, <2>2, <2>3 DEF FormTrue
<1>8. c = "delete" => DeletionTrue(k)'
  <2> SUFFICES ASSUME c = "delete" PROVE DeletionTrue(k)'
    OBVIOUS
  <2>1. DeletionTrue(r)
    BY PageIsTrue
  <2>2. DeletionTrue(r)'
    BY <1>5, <2>1, DeletionOnward
  <2> QED  BY <1>2, <1>3, <2>2 DEF DeletionTrue
<1> QED  BY <1>2, <1>3, <1>4, <1>6, <1>7, <1>8, ControlStep

LEMMA DenyKeeps ==
  ASSUME SettingsInv, Onward, NEW p \in Pages, NEW c \in Controls, UNCHANGED view,
         ~AtStage(p, c, "idle"), Deny(p, c)
  PROVE  PagesTrue'
<1>1. Failure \in AnswerRows /\ Failure # "ok" /\ Reply(p, c, Failure)
  BY SettingsAssumption DEF AnswerRows, Deny
<1> QED  BY <1>1, ReplyKeeps

\* A control of a page sends a request.
LEMMA SendingKeeps ==
  ASSUME SettingsInv, Onward, NEW p \in Pages, NEW c \in Controls, NEW kind \in Kinds,
         NEW s \in Roots \cup {Nil}, NEW j \in Nat \cup {Nil},
         UNCHANGED view, SendRequest(p, c, kind, s, j),
         c = "poll" => view[p].job # Nil /\ j = view[p].job,
         c = "sources" =>
           /\ kind \in {"save", "index"} => view[p].job = Nil
           /\ kind \in {"save", "index", "remove"} => s \in Roots
           /\ kind = "cancel" => j \in DOMAIN jobMap
  PROVE  PagesTrue'
<1>1. PICK v : v = view[p]
  OBVIOUS
<1>2. v \in ViewRows /\ ViewTrue(v) /\ ServerTrue
  BY <1>1, PageIsTrue DEF SettingsInv
<1>3. v.knows \in Nat /\ v.knows <= local.number /\ local.number \in Nat
  BY <1>2 DEF ViewRows, ViewTrue, ServerTrue, ServerTyped
<1>4. PICK k : k = [Quiet EXCEPT !.stage = "sent", !.kind = kind, !.source = s, !.job = j, !.service = v.knows]
  OBVIOUS
<1>5. Becomes(p, c, k)
  BY <1>1, <1>4 DEF SendRequest
<1>6. /\ k \in AskedRows /\ k.stage = "sent" /\ k.kind = kind /\ k.source = s /\ k.job = j
      /\ k.service = v.knows /\ k.waits = Nil
  BY <1>3, <1>4 DEF Quiet, AskedRows, AskedStages, AnswerRows
<1>7. c = "poll" => PollTrue(k, v)'
  BY <1>1, <1>6 DEF PollTrue
<1>8. c = "sources" => FormTrue(k, v)'
  BY <1>1, <1>6 DEF FormTrue, Onward
<1>9. c = "delete" => DeletionTrue(k)'
  BY <1>3, <1>6 DEF DeletionTrue, Onward
<1> QED  BY <1>1, <1>5, <1>6, <1>7, <1>8, <1>9, ControlStep

\* The server does nothing.
LEMMA ServerRests ==
  ASSUME ServerTrue, UNCHANGED <<server, database>>, chances' \in [clicks : Nat, stops : Nat]
  PROVE  ServerTrue' /\ Onward
<1>1. UNCHANGED <<local, runs, jobMap, source, evidence>>
  BY DEF server, database
<1>2. ServerTyped'
  BY <1>1 DEF ServerTrue, ServerTyped
<1>3. RunsTrue' /\ JobsTrue'
  BY <1>1 DEF ServerTrue, RunsTrue, JobsTrue, JobTrue, Last, Going
<1>4. Onward
  BY <1>1 DEF Onward, Erased, Going, ServerTrue, ServerTyped
<1> QED  BY <1>2, <1>3, <1>4 DEF ServerTrue

LEMMA CurrentTyped ==
  ASSUME ServerTrue, NEW s \in Roots
  PROVE  CurrentRun(s) \in Nat \cup {Nil}
<1>1. CASE RunsOf(s) = {}
  BY <1>1 DEF CurrentRun
<1>2. CASE RunsOf(s) # {}
  <2>1. \E r \in RunsOf(s) : \A q \in RunsOf(s) : q <= r
    BY <1>2 DEF ServerTrue, RunsTrue, Last, RunsOf
  <2>2. CurrentRun(s) \in RunsOf(s)
    BY <1>2, <2>1 DEF CurrentRun
  <2> QED  BY <2>2, RowsTyped DEF RunsOf
<1> QED  BY <1>1, <1>2

\* The timer refreshes a source.
LEMMA TimerKeeps ==
  ASSUME SettingsInv, NEW s \in Roots, TimerRefreshes(s)
  PROVE  SettingsInv'
<1>1. /\ local.up /\ local.data /\ runs' = Refreshed(s) /\ ServerTrue
      /\ UNCHANGED <<local, source, evidence, jobMap, chances, view, request>>
  BY DEF TimerRefreshes, database, SettingsInv
<1>2. PICK n : n = Joined(s)
  OBVIOUS
<1>3. /\ runs' \in Seq(RunRows) /\ RunsTrue' /\ \A r \in DOMAIN runs : ~Going(r) => ~Going(r)'
      /\ \A k : JobTrue(k) => JobTrue(k)'
  BY <1>1, <1>2, RefreshKeeps
<1>4. ServerTyped'
  BY <1>1, <1>3 DEF ServerTrue, ServerTyped
<1>5. JobsTrue'
  <2>1. \A j \in DOMAIN jobMap' : \A k : k = jobMap'[j] => JobTrue(k)'
    BY <1>1, <1>3 DEF ServerTrue, JobsTrue
  <2> QED  BY <2>1 DEF JobsTrue, JobTrue
<1>6. Onward
  BY <1>1, <1>3 DEF Onward, Erased, ServerTrue, ServerTyped
<1>7. PagesTrue'
  BY <1>1, <1>6, PagesOnward
<1> QED  BY <1>3, <1>4, <1>5, <1>7 DEF SettingsInv, ServerTrue

\* A job is added, with the run that is joined or that is new.
LEMMA JobAdded ==
  ASSUME ServerTrue, NEW s \in Roots, local.up, local.data, NEW row,
         row = [source |-> s, kept |-> TRUE, run |-> IF Paused THEN Nil ELSE Joined(s),
                result |-> IF Paused THEN "failed" ELSE Nil],
         jobMap' = Append(jobMap, row), runs' = IF Paused THEN runs ELSE Refreshed(s),
         UNCHANGED <<local, source, evidence, chances>>
  PROVE  ServerTrue' /\ Onward /\ Len(jobMap') \in Nat /\ Len(jobMap') \in DOMAIN jobMap'
<1>1. /\ runs' \in Seq(RunRows) /\ RunsTrue' /\ \A r \in DOMAIN runs : ~Going(r) => ~Going(r)'
      /\ \A k : JobTrue(k) => JobTrue(k)'
      /\ row \in JobRows /\ JobTrue(row)'
  <2>1. CASE Paused
    <3>1. UNCHANGED runs /\ row = [source |-> s, kept |-> TRUE, run |-> Nil, result |-> "failed"]
      BY <2>1
    <3>2. runs' \in Seq(RunRows) /\ RunsTrue' /\ \A r \in DOMAIN runs : ~Going(r) => ~Going(r)'
      <4>1. runs' \in Seq(RunRows)
        BY <3>1, RowsTyped
      <4>2. RunsTrue'
        BY <3>1 DEF ServerTrue, RunsTrue, Last, Going
      <4> QED  BY <3>1, <4>1, <4>2 DEF Going
    <3>3. \A k : JobTrue(k) => JobTrue(k)'
      BY <3>1 DEF JobTrue, Going
    <3>4. row \in JobRows /\ JobTrue(row)'
      <4>1. Nil # "failed" /\ "failed" \in Standings
        BY SettingsAssumption DEF Standings
      <4>2. row \in JobRows /\ row.run = Nil /\ row.result = "failed"
        BY <3>1, <4>1 DEF JobRows
      <4> QED  BY <4>1, <4>2 DEF JobTrue
    <3> QED  BY <3>2, <3>3, <3>4
  <2>2. CASE ~Paused
    <3>1. PICK n : n = Joined(s)
      OBVIOUS
    <3>2. runs' = Refreshed(s) /\ row = [source |-> s, kept |-> TRUE, run |-> n, result |-> Nil]
      BY <2>2, <3>1
    <3>3. /\ runs' \in Seq(RunRows) /\ RunsTrue' /\ \A r \in DOMAIN runs : ~Going(r) => ~Going(r)'
          /\ \A k : JobTrue(k) => JobTrue(k)'
          /\ n \in Nat /\ n \in DOMAIN runs' /\ Going(n)' /\ runs'[n].source = s
      BY <3>1, <3>2, RefreshKeeps
    <3>4. n # Nil
      BY <3>3, SettingsAssumption
    <3>5. row \in JobRows /\ JobTrue(row)'
      BY <3>2, <3>3, <3>4 DEF JobRows, JobTrue
    <3> QED  BY <3>3, <3>5
  <2> QED  BY <2>1, <2>2
<1>2. /\ jobMap' \in Seq(JobRows) /\ Len(jobMap') = Len(jobMap) + 1 /\ jobMap'[Len(jobMap) + 1] = row
      /\ DOMAIN jobMap' = DOMAIN jobMap \cup {Len(jobMap) + 1}
      /\ \A j \in DOMAIN jobMap : jobMap'[j] = jobMap[j]
  BY <1>1, RowsTyped
<1>3. ServerTyped'
  BY <1>1, <1>2 DEF ServerTrue, ServerTyped
<1>4. JobsTrue'
  <2>1. \A j \in DOMAIN jobMap' : \A k : k = jobMap'[j] => JobTrue(k)'
    BY <1>1, <1>2 DEF ServerTrue, JobsTrue
  <2> QED  BY <2>1 DEF JobsTrue, JobTrue
<1>5. Onward
  BY <1>1, <1>2 DEF Onward, Erased, ServerTrue, ServerTyped
<1>6. Len(jobMap') \in Nat /\ Len(jobMap') \in DOMAIN jobMap'
  BY <1>2
<1> QED  BY <1>1, <1>3, <1>4, <1>5, <1>6 DEF ServerTrue

\* The form is told the id of a job.
LEMMA AcceptKeeps ==
  ASSUME SettingsInv, Onward, NEW p \in Pages, NEW j \in Nat, j \in DOMAIN jobMap',
         UNCHANGED view, Arrives(p, "sources", "index"), Accept(p, j)
  PROVE  PagesTrue'
<1>1. PICK r : r = Asked(p, "sources")
  OBVIOUS
<1>2. r \in AskedRows /\ FormTrue(r, view[p]) /\ r.stage = "sent" /\ r.kind = "index"
  BY <1>1, PageIsTrue DEF Arrives, AtStage, Controls
<1>3. PICK k : k = [r EXCEPT !.stage = "answered", !.answer = "ok", !.id = j]
  OBVIOUS
<1>4. Becomes(p, "sources", k)
  BY <1>1, <1>3 DEF Accept
<1>5. /\ k \in AskedRows /\ k.stage = "answered" /\ k.answer = "ok" /\ k.id = j
      /\ k.kind = "index" /\ k.source = r.source
  BY <1>2, <1>3 DEF AskedRows, AskedStages, AnswerRows
<1>6. PICK v : v = view[p]
  OBVIOUS
<1>7. FormTrue(k, v)'
  BY <1>2, <1>5, <1>6 DEF FormTrue
<1> QED  BY <1>4, <1>5, <1>6, <1>7, ControlStep DEF Controls

LEMMA IndexKeeps ==
  ASSUME SettingsInv, NEW p \in Pages, IndexJob(p)
  PROVE  SettingsInv'
<1> DEFINE s == Asked(p, "sources").source
<1>1. /\ Arrives(p, "sources", "index") /\ local.up /\ local.data /\ ServerTrue
      /\ UNCHANGED <<local, source, evidence, view, chances>>
  BY DEF IndexJob, Unreachable, database, SettingsInv
<1>2. s \in Roots /\ ~AtStage(p, "sources", "idle")
  BY <1>1, PageIsTrue DEF FormTrue, Arrives, AtStage
<1>3. ASSUME UNCHANGED <<jobMap, runs>> PROVE ServerTrue' /\ Onward
  BY <1>1, <1>3, ServerRests DEF server, database, ServerTrue, ServerTyped
<1>4. CASE Deny(p, "sources") /\ UNCHANGED <<jobMap, runs>>
  BY <1>1, <1>2, <1>3, <1>4, DenyKeeps DEF SettingsInv, Controls
<1>5. CASE Unfinished(s) # {} /\ Accept(p, CHOOSE j \in Unfinished(s) : TRUE) /\ UNCHANGED <<jobMap, runs>>
  <2>1. PICK j : j = CHOOSE i \in Unfinished(s) : TRUE
    OBVIOUS
  <2>2. j \in DOMAIN jobMap /\ j \in Nat /\ Accept(p, j)
    BY <1>1, <1>5, <2>1, RowsTyped DEF Unfinished
  <2>3. j \in DOMAIN jobMap'
    BY <1>5, <2>2
  <2> QED  BY <1>1, <1>3, <1>5, <2>2, <2>3, AcceptKeeps DEF SettingsInv
<1>6. ASSUME jobMap' = Append(jobMap, [source |-> s, kept |-> TRUE, run |-> IF Paused THEN Nil ELSE Joined(s),
                                       result |-> IF Paused THEN "failed" ELSE Nil]),
             runs' = IF Paused THEN runs ELSE Refreshed(s), Accept(p, Len(jobMap'))
      PROVE  SettingsInv'
  <2>1. PICK row : row = [source |-> s, kept |-> TRUE, run |-> IF Paused THEN Nil ELSE Joined(s),
                          result |-> IF Paused THEN "failed" ELSE Nil]
    OBVIOUS
  <2>2. PICK root : root = s
    OBVIOUS
  <2>3. root \in Roots /\ jobMap' = Append(jobMap, row)
    BY <1>2, <1>6, <2>1, <2>2
  <2>4. ServerTrue' /\ Onward /\ Len(jobMap') \in Nat /\ Len(jobMap') \in DOMAIN jobMap'
    BY <1>1, <1>6, <2>1, <2>2, <2>3, JobAdded
  <2>5. PICK j : j = Len(jobMap')
    OBVIOUS
  <2>6. Accept(p, j)
    BY <1>6, <2>5 DEF Accept, Becomes
  <2> QED  BY <1>1, <2>4, <2>5, <2>6, AcceptKeeps DEF SettingsInv
<1> QED  BY <1>4, <1>5, <1>6 DEF IndexJob

\* A job that is kept and has no result has a run that goes on.
LEMMA StatusKeeps ==
  ASSUME SettingsInv, NEW p \in Pages, JobStatus(p)
  PROVE  SettingsInv'
<1> DEFINE j == Asked(p, "poll").job
<1>1. /\ Arrives(p, "poll", "status") /\ UNCHANGED <<server, database, view, chances>>
      /\ UNCHANGED jobMap /\ ServerTrue
  BY DEF JobStatus, server, SettingsInv
<1>2. ServerTrue' /\ Onward
  BY <1>1, ServerRests DEF ServerTrue, ServerTyped
<1>3. ~AtStage(p, "poll", "idle") /\ j \in DOMAIN jobMap
  BY <1>1, PageIsTrue DEF Arrives, AtStage, PollTrue, ViewTrue
<1>4. CASE Deny(p, "poll")
  BY <1>1, <1>2, <1>3, <1>4, DenyKeeps DEF SettingsInv, Controls
<1>5. CASE jobMap[j].kept /\ Reply(p, "poll", Progress(j))
  <2>1. JobTrue(jobMap[j]) /\ jobMap[j] \in JobRows
    BY <1>1, <1>3, JobTyped
  <2>2. PICK answer : answer = Progress(j)
    OBVIOUS
  <2>3. Reply(p, "poll", answer)
    BY <1>5, <2>2
  <2>4. CASE jobMap[j].result # Nil
    <3>1. answer = jobMap[j].result /\ answer \in AnswerRows
      BY <2>1, <2>2, <2>4 DEF Progress, JobRows, AnswerRows
    <3> QED  BY <1>1, <1>2, <1>3, <2>3, <2>4, <3>1, ReplyKeeps DEF SettingsInv, Controls
  <2>5. CASE jobMap[j].result = Nil
    <3>1. PICK n : n = jobMap[j].run
      OBVIOUS
    <3>2. Going(n) /\ n # Nil
      <4>1. Nil # "failed"
        BY SettingsAssumption DEF Standings
      <4> QED  BY <1>5, <2>1, <2>5, <3>1, <4>1 DEF JobTrue, Going
    <3>3. n \in DOMAIN runs /\ runs[n].source = jobMap[j].source
      BY <2>1, <3>1, <3>2 DEF JobTrue
    <3>4. CurrentRun(jobMap[j].source) = n
      BY <1>1, <3>2, <3>3, GoingIsCurrent
    <3>5. answer \in {"queued", "running"}
      BY <2>2, <2>5, <3>2, <3>4 DEF Progress, Going
    <3>6. answer \in AnswerRows
      BY <3>5 DEF AnswerRows, Standings
    <3> QED  BY <1>1, <1>2, <1>3, <2>3, <3>5, <3>6, ReplyKeeps DEF SettingsInv, Controls
  <2> QED  BY <2>4, <2>5
<1> QED  BY <1>4, <1>5 DEF JobStatus

\* A request of the form waits for a run of the service.
LEMMA WaitKeeps ==
  ASSUME SettingsInv, Onward, NEW p \in Pages, NEW waits \in Nat \cup {Nil}, UNCHANGED view,
         NEW r, r = Asked(p, "sources"), r.stage = "sent", r.kind \in {"cancel", "remove"},
         Becomes(p, "sources", [r EXCEPT !.stage = "waiting", !.waits = waits]),
         r.kind = "cancel" => IF waits = Nil THEN Ended(r.job)' ELSE waits = jobMap'[r.job].run
  PROVE  PagesTrue'
<1>1. r \in AskedRows /\ FormTrue(r, view[p]) /\ ServerTrue
  BY PageIsTrue DEF Controls, SettingsInv
<1>2. PICK k : k = [r EXCEPT !.stage = "waiting", !.waits = waits]
  OBVIOUS
<1>3. /\ k \in AskedRows /\ k.stage = "waiting" /\ k.waits = waits /\ k.kind = r.kind
      /\ k.source = r.source /\ k.job = r.job
  BY <1>1, <1>2 DEF AskedRows, AskedStages
<1>4. PICK v : v = view[p]
  OBVIOUS
<1>5. FormTrue(r, v)'
  BY <1>1, <1>4, FormOnward
<1>6. FormTrue(k, v)'
  BY <1>3, <1>5 DEF FormTrue
<1> QED  BY <1>2, <1>3, <1>4, <1>6, ControlStep DEF Controls

LEMMA BeginCancelKeeps ==
  ASSUME SettingsInv, NEW p \in Pages, BeginCancel(p)
  PROVE  SettingsInv'
<1>1. /\ Arrives(p, "sources", "cancel") /\ UNCHANGED <<local, jobMap, source, evidence, view, chances>>
      /\ ServerTrue
  BY DEF BeginCancel, database, SettingsInv
<1>2. PICK r : r = Asked(p, "sources")
  OBVIOUS
<1>3. r.stage = "sent" /\ r.kind = "cancel" /\ r \in AskedRows /\ FormTrue(r, view[p]) /\ "sources" \in Controls
  BY <1>1, <1>2, PageIsTrue DEF Arrives, AtStage, Controls
<1>4. r.job \in DOMAIN jobMap /\ r.waits = Nil /\ ~AtStage(p, "sources", "idle")
  BY <1>2, <1>3 DEF FormTrue, AtStage
<1>5. jobMap[r.job] \in JobRows /\ JobTrue(jobMap[r.job])
  BY <1>1, <1>4, JobTyped
<1>6. ASSUME UNCHANGED runs PROVE ServerTrue' /\ Onward
  BY <1>1, <1>6, ServerRests DEF server, database, ServerTrue, ServerTyped
<1>7. CASE Deny(p, "sources") /\ UNCHANGED runs
  BY <1>1, <1>3, <1>4, <1>6, <1>7, DenyKeeps DEF SettingsInv
<1>8. CASE /\ jobMap[r.job].result # Nil /\ UNCHANGED runs
           /\ Becomes(p, "sources", [r EXCEPT !.stage = "waiting"])
  <2>1. Ended(r.job)
    BY <1>5, <1>8 DEF JobTrue, Ended
  <2>2. Ended(r.job)'
    BY <1>1, <1>8, <2>1 DEF Ended, Going
  <2>3. [r EXCEPT !.stage = "waiting"] = [r EXCEPT !.stage = "waiting", !.waits = Nil]
    BY <1>3, <1>4 DEF AskedRows
  <2>4. Becomes(p, "sources", [r EXCEPT !.stage = "waiting", !.waits = Nil])
    BY <1>8, <2>3
  <2>5. PagesTrue'
    BY <1>1, <1>2, <1>3, <1>6, <1>8, <2>2, <2>4, WaitKeeps
  <2> QED  BY <1>6, <1>8, <2>5 DEF SettingsInv
<1>9. CASE /\ jobMap[r.job].kept /\ jobMap[r.job].result = Nil
           /\ AbortAndWait(p, jobMap[r.job].source)
  <2>1. PICK n : n = jobMap[r.job].run
    OBVIOUS
  <2>2. Going(n) /\ n \in DOMAIN runs /\ runs[n].source = jobMap[r.job].source /\ n # Nil
    <3>1. Nil # "failed"
      BY SettingsAssumption DEF Standings
    <3> QED  BY <1>5, <1>9, <2>1, <3>1 DEF JobTrue
  <2>3. CurrentRun(jobMap[r.job].source) = n /\ n \in Nat
    BY <1>1, <2>2, GoingIsCurrent, RowsTyped
  <2>4. /\ runs' = AbortedRuns({n} \ {Nil})
        /\ Becomes(p, "sources", [r EXCEPT !.stage = "waiting", !.waits = n])
    BY <1>2, <1>9, <2>3 DEF AbortAndWait
  <2>5. ServerTrue' /\ Onward
    BY <1>1, <2>4, AbortKeeps
  <2>6. PagesTrue'
    BY <1>1, <1>2, <1>3, <2>1, <2>2, <2>3, <2>4, <2>5, WaitKeeps
  <2> QED  BY <2>5, <2>6 DEF SettingsInv
<1> QED  BY <1>2, <1>7, <1>8, <1>9 DEF BeginCancel

\* The run that the cancellation waited for was that of the job.
LEMMA EndCancelKeeps ==
  ASSUME SettingsInv, NEW p \in Pages, EndCancel(p)
  PROVE  SettingsInv'
<1>1. PICK r : r = Asked(p, "sources")
  OBVIOUS
<1>2. /\ r.stage = "waiting" /\ r.kind = "cancel" /\ (r.waits # Nil => ~Going(r.waits))
      /\ jobMap' = [jobMap EXCEPT ![r.job].kept = FALSE] /\ Reply(p, "sources", "ok")
      /\ UNCHANGED <<local, runs, source, evidence, view, chances>> /\ ServerTrue
  BY <1>1 DEF EndCancel, Over, AtStage, database, SettingsInv
<1>3. FormTrue(r, view[p]) /\ "sources" \in Controls /\ "ok" \in AnswerRows
  BY <1>1, PageIsTrue DEF Controls, AnswerRows
<1>4. r.job \in DOMAIN jobMap /\ Ended(r.job)
  BY <1>2, <1>3 DEF FormTrue, Ended
<1>5. ServerTrue' /\ Onward
  BY <1>2, <1>4, DropKeeps
<1>6. Ended(r.job)'
  BY <1>2, <1>4, <1>5 DEF Ended, Going, Onward
<1>7. ~AtStage(p, "sources", "idle")
  BY <1>1, <1>2 DEF AtStage
<1>8. PagesTrue'
  BY <1>1, <1>2, <1>3, <1>5, <1>6, <1>7, ReplyKeeps
<1> QED  BY <1>5, <1>8 DEF SettingsInv

LEMMA BeginRemoveKeeps ==
  ASSUME SettingsInv, NEW p \in Pages, BeginRemove(p)
  PROVE  SettingsInv'
<1>1. PICK r : r = Asked(p, "sources")
  OBVIOUS
<1>2. /\ r.stage = "sent" /\ r.kind = "remove" /\ AbortAndWait(p, r.source)
      /\ UNCHANGED <<local, jobMap, source, evidence, view, chances>> /\ ServerTrue
  BY <1>1 DEF BeginRemove, Arrives, AtStage, database, SettingsInv
<1>3. r.source \in Roots
  BY <1>1, <1>2, PageIsTrue DEF FormTrue
<1>4. PICK n : n = CurrentRun(r.source)
  OBVIOUS
<1>5. n \in Nat \cup {Nil}
  BY <1>2, <1>3, <1>4, CurrentTyped
<1>6. /\ runs' = AbortedRuns({n} \ {Nil})
      /\ Becomes(p, "sources", [r EXCEPT !.stage = "waiting", !.waits = n])
  BY <1>1, <1>2, <1>4 DEF AbortAndWait
<1>7. ServerTrue' /\ Onward
  BY <1>2, <1>6, AbortKeeps
<1>8. PagesTrue'
  BY <1>1, <1>2, <1>5, <1>6, <1>7, WaitKeeps
<1> QED  BY <1>7, <1>8 DEF SettingsInv

\* A source that is removed has no run in this service that reads it.
LEMMA EndRemoveKeeps ==
  ASSUME SettingsInv, NEW p \in Pages, EndRemove(p)
  PROVE  SettingsInv'
<1>1. PICK r : r = Asked(p, "sources")
  OBVIOUS
<1>2. /\ r.stage = "waiting" /\ r.kind = "remove" /\ ServerTrue
      /\ UNCHANGED <<local, runs, jobMap, view, chances>>
  BY <1>1 DEF EndRemove, Over, AtStage, server, SettingsInv
<1>3. r.source \in Roots /\ ~AtStage(p, "sources", "idle") /\ "sources" \in Controls /\ "ok" \in AnswerRows
  BY <1>1, <1>2, PageIsTrue DEF FormTrue, AtStage, Controls, AnswerRows
<1>4. CASE Deny(p, "sources") /\ UNCHANGED database
  <2>1. ServerTrue' /\ Onward
    BY <1>2, <1>4, ServerRests DEF server, ServerTrue, ServerTyped
  <2> QED  BY <1>2, <1>3, <1>4, <2>1, DenyKeeps DEF SettingsInv
<1>5. CASE ~HasLease(r.source) /\ Removed(r.source) /\ Reply(p, "sources", "ok")
  <2>1. /\ source' = [source EXCEPT ![r.source] = "absent"] /\ evidence' = evidence \ {r.source}
    BY <1>5 DEF Removed
  <2>2. \A n \in DOMAIN runs : runs[n].state = "running" => runs[n].source # r.source
    BY <1>2, <1>5, GoingIsCurrent DEF HasLease, Going
  <2>3. source' \in [Roots -> {"absent", "enabled", "paused"}] /\ evidence' \subseteq evidence
    BY <1>2, <2>1 DEF ServerTrue, ServerTyped
  <2>4. \A n \in DOMAIN runs : runs[n].state = "running" => source'[runs[n].source] # "absent"
    <3>1. \A n \in DOMAIN runs : runs[n].source \in Roots
      BY <1>2, RowsTyped DEF RunRows
    <3> QED  BY <1>2, <2>1, <2>2, <3>1, RowsTyped DEF ServerTrue, ServerTyped
  <2>5. \A s \in Roots : source'[s] = "absent" => s \notin evidence'
    BY <1>2, <1>3, <2>1, RowsTyped DEF ServerTrue, ServerTyped
  <2>6. local' \in [number : Nat, up : BOOLEAN, data : BOOLEAN, upkeep : Pages \cup {Nil}]
    BY <1>2 DEF ServerTrue, ServerTyped
  <2>7. ServerTrue' /\ Onward
    BY <1>2, <2>3, <2>4, <2>5, <2>6, RowsTyped, DataKeeps
  <2>8. PagesTrue'
    BY <1>1, <1>2, <1>3, <1>5, <2>7, ReplyKeeps
  <2> QED  BY <2>7, <2>8 DEF SettingsInv
<1> QED  BY <1>1, <1>4, <1>5 DEF EndRemove

LEMMA UpsertKeeps ==
  ASSUME SettingsInv, NEW p \in Pages, UpsertSource(p)
  PROVE  SettingsInv'
<1>1. PICK r : r = Asked(p, "sources")
  OBVIOUS
<1>2. /\ r.stage = "sent" /\ r.kind = "save" /\ ServerTrue
      /\ UNCHANGED <<local, runs, jobMap, evidence, view, chances>>
  BY <1>1 DEF UpsertSource, Arrives, AtStage, server, SettingsInv
<1>3. r.source \in Roots /\ ~AtStage(p, "sources", "idle") /\ "sources" \in Controls /\ "ok" \in AnswerRows
  BY <1>1, <1>2, PageIsTrue DEF FormTrue, AtStage, Controls, AnswerRows
<1>4. CASE Deny(p, "sources") /\ UNCHANGED source
  <2>1. ServerTrue' /\ Onward
    BY <1>2, <1>4, ServerRests DEF server, database, ServerTrue, ServerTyped
  <2> QED  BY <1>2, <1>3, <1>4, <2>1, DenyKeeps DEF SettingsInv
<1>5. CASE Reply(p, "sources", "ok") /\ source' = [source EXCEPT ![r.source] = "enabled"]
  <2>1. source' \in [Roots -> {"absent", "enabled", "paused"}]
    BY <1>2, <1>5 DEF ServerTrue, ServerTyped
  <2>2. \A s \in Roots : source'[s] = "absent" => source[s] = "absent"
    BY <1>2, <1>3, <1>5 DEF ServerTrue, ServerTyped
  <2>3. \A n \in DOMAIN runs : runs[n].source \in Roots
    BY <1>2, RowsTyped DEF RunRows
  <2>4. local' \in [number : Nat, up : BOOLEAN, data : BOOLEAN, upkeep : Pages \cup {Nil}]
    BY <1>2 DEF ServerTrue, ServerTyped
  <2>5. ServerTrue' /\ Onward
    BY <1>2, <2>1, <2>2, <2>3, <2>4, RowsTyped, DataKeeps
  <2>6. PagesTrue'
    BY <1>1, <1>2, <1>3, <1>5, <2>5, ReplyKeeps
  <2> QED  BY <2>5, <2>6 DEF SettingsInv
<1> QED  BY <1>1, <1>4, <1>5 DEF UpsertSource

LEMMA UpkeepKeeps ==
  ASSUME SettingsInv, NEW p \in Pages, NEW c \in Controls, StartUpkeep(p, c)
  PROVE  SettingsInv'
<1>1. PICK r : r = Asked(p, c)
  OBVIOUS
<1>2. /\ c \in {"upkeep", "delete"} /\ r.stage = "sent" /\ ~AtStage(p, c, "idle") /\ ServerTrue
      /\ r \in AskedRows /\ UNCHANGED <<jobMap, source, evidence, view, chances>>
  BY <1>1, PageIsTrue DEF StartUpkeep, AtStage, database, SettingsInv
<1>3. CASE Deny(p, c) /\ UNCHANGED <<local, runs>>
  <2>1. ServerTrue' /\ Onward
    BY <1>2, <1>3, ServerRests DEF server, database, ServerTrue, ServerTyped
  <2> QED  BY <1>2, <1>3, <2>1, DenyKeeps DEF SettingsInv
<1>4. CASE /\ local' = [local EXCEPT !.upkeep = p]
           /\ runs' = AbortedRuns({n \in DOMAIN runs : Going(n)})
           /\ Becomes(p, c, [r EXCEPT !.stage = "waiting"])
  <2>1. ServerTrue' /\ Onward
    <3>1. PICK these : these = {n \in DOMAIN runs : Going(n)}
      OBVIOUS
    <3>2. runs' = AbortedRuns(these)
      BY <1>4, <3>1
    <3> QED  BY <1>2, <1>4, <3>2, AbortKeeps
  <2>2. PICK k : k = [r EXCEPT !.stage = "waiting"]
    OBVIOUS
  <2>3. k \in AskedRows /\ k.stage = "waiting" /\ k.service = r.service /\ Becomes(p, c, k)
    BY <1>2, <1>4, <2>2 DEF AskedRows, AskedStages
  <2>4. c = "delete" => DeletionTrue(k)'
    <3>1. c = "delete" => DeletionTrue(r)'
      BY <1>1, <1>2, <2>1, PageIsTrue, DeletionOnward
    <3> QED  BY <1>2, <2>3, <3>1 DEF DeletionTrue
  <2>5. PICK v : v = view[p]
    OBVIOUS
  <2>6. PagesTrue'
    BY <1>2, <2>1, <2>3, <2>4, <2>5, ControlStep
  <2> QED  BY <2>1, <2>6 DEF SettingsInv
<1> QED  BY <1>1, <1>3, <1>4 DEF StartUpkeep

LEMMA ClearKeeps ==
  ASSUME SettingsInv, NEW p \in Pages, EndClear(p)
  PROVE  SettingsInv'
<1>1. /\ ~AtStage(p, "upkeep", "idle") /\ Settled /\ local' = Unpaused /\ ServerTrue
      /\ UNCHANGED <<runs, jobMap, view, chances>> /\ "upkeep" \in Controls /\ "ok" \in AnswerRows
  BY DEF EndClear, AtStage, SettingsInv, Controls, AnswerRows
<1>2. \A n \in DOMAIN runs : ~Going(n) /\ runs[n].state # "running"
  BY <1>1, SettledStops DEF Going
<1>3. /\ local' \in [number : Nat, up : BOOLEAN, data : BOOLEAN, upkeep : Pages \cup {Nil}]
      /\ local'.number = local.number /\ local'.up = local.up /\ local'.data = local.data
  BY <1>1 DEF Unpaused, ServerTrue, ServerTyped
<1>4. CASE Deny(p, "upkeep") /\ UNCHANGED database
  <2>1. source' \in [Roots -> {"absent", "enabled", "paused"}] /\ evidence' \subseteq evidence
    BY <1>1, <1>4 DEF database, ServerTrue, ServerTyped
  <2>2. \A s \in Roots : source'[s] = "absent" => s \notin evidence'
    BY <1>1, <1>4, RowsTyped DEF database
  <2>3. ServerTrue' /\ Onward
    BY <1>1, <1>2, <1>3, <2>1, <2>2, DataKeeps
  <2> QED  BY <1>1, <1>4, <2>3, DenyKeeps DEF SettingsInv
<1>5. CASE /\ source' = [s \in Roots |-> IF source[s] = "absent" THEN "absent" ELSE "paused"]
           /\ evidence' = {} /\ Reply(p, "upkeep", "ok")
  <2>1. source' \in [Roots -> {"absent", "enabled", "paused"}] /\ evidence' \subseteq evidence
    BY <1>5
  <2>2. ServerTrue' /\ Onward
    BY <1>1, <1>2, <1>3, <1>5, <2>1, DataKeeps
  <2>3. PICK r : r = Asked(p, "upkeep")
    OBVIOUS
  <2>4. PagesTrue'
    BY <1>1, <1>5, <2>2, <2>3, ReplyKeeps
  <2> QED  BY <2>2, <2>4 DEF SettingsInv
<1> QED  BY <1>4, <1>5 DEF EndClear

\* A deletion that is answered well has erased the events and closed the store.
LEMMA DeleteKeeps ==
  ASSUME SettingsInv, NEW p \in Pages, EndDelete(p)
  PROVE  SettingsInv'
<1>1. /\ ~AtStage(p, "delete", "idle") /\ Settled /\ ServerTrue
      /\ UNCHANGED <<runs, jobMap, view, chances>> /\ "delete" \in Controls /\ "ok" \in AnswerRows
  BY DEF EndDelete, AtStage, SettingsInv, Controls, AnswerRows
<1>2. \A n \in DOMAIN runs : ~Going(n) /\ runs[n].state # "running"
  BY <1>1, SettledStops DEF Going
<1>3. local \in [number : Nat, up : BOOLEAN, data : BOOLEAN, upkeep : Pages \cup {Nil}]
  BY <1>1 DEF ServerTrue, ServerTyped
<1>4. /\ local' \in [number : Nat, up : BOOLEAN, data : BOOLEAN, upkeep : Pages \cup {Nil}]
      /\ local'.number = local.number /\ local'.up = local.up /\ (local'.data => local.data)
  <2>1. CASE local' = Unpaused
    BY <1>3, <2>1 DEF Unpaused
  <2>2. CASE local' = [Unpaused EXCEPT !.data = FALSE]
    BY <1>3, <2>2 DEF Unpaused
  <2> QED  BY <2>1, <2>2 DEF EndDelete
<1>5. CASE Deny(p, "delete") /\ UNCHANGED database
  <2>1. source' \in [Roots -> {"absent", "enabled", "paused"}] /\ evidence' \subseteq evidence
    BY <1>1, <1>5 DEF database, ServerTrue, ServerTyped
  <2>2. \A s \in Roots : source'[s] = "absent" => s \notin evidence'
    BY <1>1, <1>5, RowsTyped DEF database
  <2>3. ServerTrue' /\ Onward
    BY <1>1, <1>2, <1>4, <2>1, <2>2, DataKeeps
  <2> QED  BY <1>1, <1>5, <2>3, DenyKeeps DEF SettingsInv
<1>6. CASE /\ local' = [Unpaused EXCEPT !.data = FALSE]
           /\ source' = [s \in Roots |-> "absent"] /\ evidence' = {}
           /\ Reply(p, "delete", "ok")
  <2>1. source' \in [Roots -> {"absent", "enabled", "paused"}] /\ evidence' \subseteq evidence
    BY <1>6
  <2>2. ServerTrue' /\ Onward
    BY <1>1, <1>2, <1>4, <1>6, <2>1, DataKeeps
  <2>3. Erased'
    BY <1>3, <1>6 DEF Unpaused, Erased
  <2>4. PICK r : r = Asked(p, "delete")
    OBVIOUS
  <2>5. PagesTrue'
    BY <1>1, <1>6, <2>2, <2>3, <2>4, ReplyKeeps
  <2> QED  BY <2>2, <2>5 DEF SettingsInv
<1> QED  BY <1>5, <1>6 DEF EndDelete

\* Every request that waits in the service fails with it.
LEMMA ServiceStopKeeps ==
  ASSUME SettingsInv, ServiceStops
  PROVE  SettingsInv'
<1>1. ServerTrue' /\ Onward /\ ServerTrue
  BY StopKeeps DEF SettingsInv
<1>2. /\ UNCHANGED view
      /\ request' = [p \in Pages |-> [c \in Controls |->
           IF AtStage(p, c, "waiting")
           THEN [Asked(p, c) EXCEPT !.stage = "answered", !.answer = Failure] ELSE Asked(p, c)]]
  BY DEF ServiceStops
<1>3. ASSUME NEW p \in Pages, NEW c \in Controls
      PROVE  /\ request'[p][c] \in AskedRows /\ request'[p][c].kind = Asked(p, c).kind
             /\ \/ request'[p][c] = Asked(p, c) /\ ~AtStage(p, c, "waiting")
                \/ /\ AtStage(p, c, "waiting")
                   /\ request'[p][c] = [Asked(p, c) EXCEPT !.stage = "answered", !.answer = Failure]
  <2>1. Asked(p, c) \in AskedRows
    BY PageIsTrue
  <2>2. request'[p][c] = IF AtStage(p, c, "waiting")
                         THEN [Asked(p, c) EXCEPT !.stage = "answered", !.answer = Failure] ELSE Asked(p, c)
    BY <1>2
  <2>3. CASE AtStage(p, c, "waiting")
    <3>1. request'[p][c] = [Asked(p, c) EXCEPT !.stage = "answered", !.answer = Failure]
      BY <2>2, <2>3
    <3>2. request'[p][c] \in AskedRows /\ request'[p][c].kind = Asked(p, c).kind
      BY <2>1, <3>1 DEF AskedRows, AskedStages, AnswerRows
    <3> QED  BY <2>3, <3>1, <3>2
  <2>4. CASE ~AtStage(p, c, "waiting")
    BY <2>1, <2>2, <2>4
  <2> QED  BY <2>3, <2>4
<1>4. request' \in [Pages -> [Controls -> AskedRows]] /\ view' \in [Pages -> ViewRows]
  <2>1. \A p \in Pages : request'[p] \in [Controls -> AskedRows]
    BY <1>2, <1>3
  <2> QED  BY <1>2, <2>1 DEF SettingsInv, PagesTrue
<1>5. ASSUME NEW p \in Pages, NEW c \in Controls, NEW r, r = Asked(p, c), NEW k, k = request'[p][c]
      PROVE  \/ k = r
             \/ /\ r.stage = "waiting" /\ k.stage = "answered" /\ k.answer = Failure /\ k.kind = r.kind
                /\ k.source = r.source /\ k.job = r.job /\ k.service = r.service
  <2>1. r \in AskedRows
    BY <1>5, PageIsTrue
  <2>2. k = r \/ (r.stage = "waiting" /\ k = [r EXCEPT !.stage = "answered", !.answer = Failure])
    BY <1>3, <1>5 DEF AtStage
  <2> QED  BY <2>1, <2>2 DEF AskedRows
<1>6. ASSUME NEW p \in Pages, NEW v, v = view'[p], NEW req, req = request'[p]
      PROVE  PageTrue(v, req)'
  <2>1. v = view[p] /\ ViewTrue(v)'
    BY <1>1, <1>2, <1>6, PageIsTrue, ViewOnward
  <2>2. PollTrue(req["poll"], v)'
    <3>1. PICK r : r = Asked(p, "poll")
      OBVIOUS
    <3>2. PollTrue(r, v) /\ ViewTrue(v)
      BY <2>1, <3>1, PageIsTrue
    <3>3. PollTrue(r, v)'
      BY <1>1, <3>2, PollOnward
    <3>4. PICK k : k = req["poll"]
      OBVIOUS
    <3>5. \/ k = r
          \/ r.stage = "waiting" /\ k.stage = "answered" /\ k.answer = Failure /\ k.job = r.job
      BY <1>5, <1>6, <3>1, <3>4 DEF Controls
    <3>6. PollTrue(k, v)'
      BY <3>3, <3>5 DEF PollTrue
    <3> QED  BY <3>4, <3>6 DEF PollTrue
  <2>3. FormTrue(req["sources"], v)'
    <3>1. PICK r : r = Asked(p, "sources")
      OBVIOUS
    <3>2. FormTrue(r, v)
      BY <2>1, <3>1, PageIsTrue
    <3>3. FormTrue(r, v)'
      BY <1>1, <3>2, FormOnward
    <3>4. Failure # "ok"
      BY SettingsAssumption
    <3>5. PICK k : k = req["sources"]
      OBVIOUS
    <3>6. \/ k = r
          \/ /\ r.stage = "waiting" /\ k.stage = "answered" /\ k.answer = Failure
             /\ k.kind = r.kind /\ k.source = r.source /\ k.job = r.job
      BY <1>5, <1>6, <3>1, <3>5 DEF Controls
    <3>7. FormTrue(k, v)'
      BY <3>3, <3>4, <3>6 DEF FormTrue
    <3> QED  BY <3>5, <3>7 DEF FormTrue
  <2>4. DeletionTrue(req["delete"])'
    <3>1. PICK r : r = Asked(p, "delete")
      OBVIOUS
    <3>2. DeletionTrue(r)
      BY <3>1, PageIsTrue
    <3>3. DeletionTrue(r)'
      BY <1>1, <3>2, DeletionOnward
    <3>4. Failure # "ok"
      BY SettingsAssumption
    <3>5. PICK k : k = req["delete"]
      OBVIOUS
    <3>6. \/ k = r
          \/ r.stage = "waiting" /\ k.stage = "answered" /\ k.answer = Failure /\ k.service = r.service
      BY <1>5, <1>6, <3>1, <3>5 DEF Controls
    <3>7. DeletionTrue(k)'
      BY <3>3, <3>4, <3>6 DEF DeletionTrue
    <3> QED  BY <3>5, <3>7 DEF DeletionTrue
  <2> QED  BY <2>1, <2>2, <2>3, <2>4 DEF PageTrue
<1>7. PagesTrue'
  BY <1>4, <1>6, PagesTogether
<1> QED  BY <1>1, <1>7 DEF SettingsInv

LEMMA FailKeeps ==
  ASSUME SettingsInv, NEW p \in Pages, NEW c \in Controls, Fail(p, c)
  PROVE  SettingsInv'
<1>1. Deny(p, c) /\ ~AtStage(p, c, "idle") /\ UNCHANGED <<server, database, view, chances>> /\ ServerTrue
  BY DEF Fail, AtStage, SettingsInv
<1>2. ServerTrue' /\ Onward
  BY <1>1, ServerRests DEF ServerTrue, ServerTyped
<1> QED  BY <1>1, <1>2, DenyKeeps DEF SettingsInv

-----------------------------------------------------------------------------
(* The pages.                                                                *)

LEMMA ClickKeeps ==
  ASSUME SettingsInv, NEW p \in Pages, NEW c \in Controls, NEW kind \in Kinds,
         NEW s \in Roots \cup {Nil}, NEW j \in Nat \cup {Nil}, Click(p, c, kind, s, j), c # "poll",
         c = "sources" =>
           /\ kind \in {"save", "index"} => view[p].job = Nil
           /\ kind \in {"save", "index", "remove"} => s \in Roots
           /\ kind = "cancel" => j \in DOMAIN jobMap
  PROVE  SettingsInv'
<1>1. /\ chances.clicks > 0 /\ chances' = [chances EXCEPT !.clicks = @ - 1]
      /\ SendRequest(p, c, kind, s, j) /\ UNCHANGED <<server, database, view>> /\ ServerTrue
  BY DEF Click, SettingsInv
<1>2. chances' \in [clicks : Nat, stops : Nat]
  <2>1. chances \in [clicks : Nat, stops : Nat]
    BY <1>1 DEF ServerTrue, ServerTyped
  <2>2. chances.clicks - 1 \in Nat
    BY <1>1, <2>1
  <2> QED  BY <1>1, <2>1, <2>2
<1>3. ServerTrue' /\ Onward
  BY <1>1, <1>2, ServerRests
<1>4. PagesTrue'
  BY <1>1, <1>3, SendingKeeps
<1> QED  BY <1>3, <1>4 DEF SettingsInv

LEMMA AskKeeps ==
  ASSUME SettingsInv, NEW p \in Pages,
         \/ \E s \in Roots : AskAdd(p, s) \/ AskRemove(p, s)
         \/ AskCancel(p) \/ AskClear(p) \/ AskDelete(p) \/ AskStatus(p)
  PROVE  SettingsInv'
<1> USE DEF Kinds, Controls
<1>1. ASSUME NEW s \in Roots, AskAdd(p, s) PROVE SettingsInv'
  BY <1>1, ClickKeeps DEF AskAdd
<1>2. ASSUME NEW s \in Roots, AskRemove(p, s) PROVE SettingsInv'
  BY <1>2, ClickKeeps DEF AskRemove
<1>3. CASE AskCancel(p)
  <2>1. PICK j : j = view[p].job
    OBVIOUS
  <2>2. j \in DOMAIN jobMap /\ j \in Nat
    BY <1>3, <2>1, PageIsTrue, RowsTyped DEF AskCancel, ViewTrue, SettingsInv
  <2>3. Click(p, "sources", "cancel", Nil, j)
    BY <1>3, <2>1 DEF AskCancel
  <2> QED  BY <2>2, <2>3, ClickKeeps
<1>4. CASE AskClear(p)
  BY <1>4, ClickKeeps DEF AskClear
<1>5. CASE AskDelete(p)
  BY <1>5, ClickKeeps DEF AskDelete
<1>6. CASE AskStatus(p)
  <2>1. PICK j : j = view[p].job
    OBVIOUS
  <2>2. j \in Nat /\ j = view[p].job /\ j # Nil
    BY <1>6, <2>1, PageIsTrue DEF AskStatus, ViewRows
  <2>3. SendRequest(p, "poll", "status", Nil, j) /\ UNCHANGED <<server, database, view, chances>>
    BY <1>6, <2>1 DEF AskStatus
  <2>4. ServerTrue' /\ Onward
    BY <2>3, ServerRests DEF SettingsInv, ServerTrue, ServerTyped
  <2>5. PagesTrue'
    BY <2>2, <2>3, <2>4, SendingKeeps
  <2> QED  BY <2>4, <2>5 DEF SettingsInv
<1> QED  BY <1>1, <1>2, <1>3, <1>4, <1>5, <1>6

\* What a page shows changes with the end of a request.
LEMMA ShownKeeps ==
  ASSUME SettingsInv, UNCHANGED <<server, database, chances>>, NEW p \in Pages, NEW c \in Controls,
         NEW v \in ViewRows, Display(p, v), Becomes(p, c, Quiet), ViewTrue(v)',
         c = "poll" \/ v.job = view[p].job \/ (view[p].job = Nil /\ c = "sources"),
         c = "sources" \/ v.job = view[p].job \/ v.job = Nil
  PROVE  SettingsInv'
<1>1. ServerTrue /\ ServerTrue' /\ Onward
  BY ServerRests DEF SettingsInv, ServerTrue, ServerTyped
<1>2. PICK k : k = Quiet
  OBVIOUS
<1>3. k \in AskedRows /\ k.stage = "idle" /\ Becomes(p, c, k)
  BY <1>2, QuietTyped
<1>4. PICK poll : poll = IF c = "poll" THEN k ELSE request[p]["poll"]
  OBVIOUS
<1>5. PICK form : form = IF c = "sources" THEN k ELSE request[p]["sources"]
  OBVIOUS
<1>6. PICK deletion : deletion = IF c = "delete" THEN k ELSE request[p]["delete"]
  OBVIOUS
<1>7. PICK w : w = view[p]
  OBVIOUS
<1>8. PollTrue(poll, v)'
  <2>1. CASE c = "poll"
    BY <1>3, <1>4, <2>1 DEF PollTrue
  <2>2. CASE c # "poll"
    <3>1. poll = Asked(p, "poll")
      BY <1>4, <2>2 DEF Asked
    <3>2. ViewTrue(w) /\ PollTrue(poll, w)
      BY <1>7, <3>1, PageIsTrue
    <3>3. PollTrue(poll, w)'
      BY <1>1, <3>2, PollOnward
    <3> QED  BY <1>7, <2>2, <3>2, <3>3 DEF PollTrue
  <2> QED  BY <2>1, <2>2
<1>9. FormTrue(form, v)'
  <2>1. CASE c = "sources"
    BY <1>3, <1>5, <2>1 DEF FormTrue
  <2>2. CASE c # "sources"
    <3>1. form = Asked(p, "sources")
      BY <1>5, <2>2 DEF Asked
    <3>2. FormTrue(form, w)
      BY <1>7, <3>1, PageIsTrue
    <3>3. FormTrue(form, w)'
      BY <1>1, <3>2, FormOnward
    <3> QED  BY <1>7, <2>2, <3>3 DEF FormTrue
  <2> QED  BY <2>1, <2>2
<1>10. DeletionTrue(deletion)'
  <2>1. CASE c = "delete"
    BY <1>3, <1>6, <2>1 DEF DeletionTrue
  <2>2. CASE c # "delete"
    <3>1. deletion = Asked(p, "delete")
      BY <1>6, <2>2 DEF Asked
    <3>2. DeletionTrue(deletion)
      BY <3>1, PageIsTrue
    <3> QED  BY <1>1, <3>2, DeletionOnward
  <2> QED  BY <2>1, <2>2
<1>11. PagesTrue'
  BY <1>1, <1>3, <1>4, <1>5, <1>6, <1>8, <1>9, <1>10, ControlsStep DEF Display
<1> QED  BY <1>1, <1>11 DEF SettingsInv

\* What a page shows is the same.
LEMMA QuietKeeps ==
  ASSUME SettingsInv, UNCHANGED <<server, database, chances, view>>, NEW p \in Pages, NEW c \in Controls,
         Becomes(p, c, Quiet)
  PROVE  SettingsInv'
<1>1. ServerTrue' /\ Onward
  BY ServerRests DEF SettingsInv, ServerTrue, ServerTyped
<1>2. PICK v : v = view[p]
  OBVIOUS
<1>3. v \in ViewRows /\ view' = [view EXCEPT ![p] = v] /\ ViewTrue(v)
  BY <1>2, PageIsTrue
<1>4. ViewTrue(v)'
  BY <1>1, <1>3, ViewOnward DEF SettingsInv
<1> QED  BY <1>2, <1>3, <1>4, ShownKeeps DEF Display

LEMMA ToldKeeps ==
  ASSUME SettingsInv, NEW p \in Pages, Told(p)
  PROVE  SettingsInv'
<1>1. PICK r : r = Asked(p, "poll")
  OBVIOUS
<1>2. PICK w : w = view[p]
  OBVIOUS
<1>3. /\ r.stage = "answered" /\ Becomes(p, "poll", Quiet) /\ UNCHANGED <<server, database, chances>>
      /\ IF r.answer = Failure THEN Display(p, [w EXCEPT !.job = Nil, !.status = "unavailable"])
         ELSE IF r.answer \in {"queued", "running"} THEN Display(p, [w EXCEPT !.status = "indexing"])
         ELSE Display(p, [w EXCEPT !.job = Nil, !.status = Words(r.answer)])
  BY <1>1, <1>2 DEF Told, AtStage
<1>4. w \in ViewRows /\ ViewTrue(w) /\ PollTrue(r, w) /\ "poll" \in Controls /\ ServerTrue
  BY <1>1, <1>2, PageIsTrue DEF Controls, SettingsInv
<1>5. Onward
  BY <1>3, <1>4, ServerRests DEF ServerTrue, ServerTyped
<1>6. ViewTrue(w)'
  BY <1>4, <1>5, ViewOnward
<1>7. PICK v : v = IF r.answer = Failure THEN [w EXCEPT !.job = Nil, !.status = "unavailable"]
                   ELSE IF r.answer \in {"queued", "running"} THEN [w EXCEPT !.status = "indexing"]
                   ELSE [w EXCEPT !.job = Nil, !.status = Words(r.answer)]
  OBVIOUS
<1>8. Display(p, v)
  BY <1>3, <1>7
<1>9. v \in ViewRows /\ v.job \in {Nil, w.job} /\ ViewTrue(v)'
  <2>1. CASE r.answer = Failure
    <3>1. v = [w EXCEPT !.job = Nil, !.status = "unavailable"]
      BY <1>7, <2>1
    <3>2. /\ v \in ViewRows /\ v.job = Nil /\ v.status = "unavailable"
          /\ v.knows = w.knows /\ v.deleted = w.deleted
      BY <1>4, <3>1 DEF ViewRows
    <3> QED  BY <1>6, <3>2 DEF ViewTrue
  <2>2. CASE r.answer # Failure /\ r.answer \in {"queued", "running"}
    <3>1. v = [w EXCEPT !.status = "indexing"]
      BY <1>7, <2>2
    <3>2. /\ v \in ViewRows /\ v.job = w.job /\ v.followed = w.followed /\ v.status = "indexing"
          /\ v.knows = w.knows /\ v.deleted = w.deleted
      BY <1>4, <3>1 DEF ViewRows
    <3> QED  BY <1>6, <3>2 DEF ViewTrue
  <2>3. CASE r.answer # Failure /\ r.answer \notin {"queued", "running"}
    <3>1. v = [w EXCEPT !.job = Nil, !.status = Words(r.answer)]
      BY <1>7, <2>3
    <3>2. /\ w.job # Nil /\ w.followed = w.job /\ w.job \in DOMAIN jobMap
          /\ jobMap[w.job].result # Nil /\ r.answer = jobMap[w.job].result
      BY <1>3, <1>4, <2>3 DEF PollTrue, ViewTrue
    <3>3. jobMap[w.job] \in JobRows
      BY <1>4, <3>2, RowsTyped
    <3>4. r.answer \in Standings
      BY <3>2, <3>3 DEF JobRows
    <3>5. Words(r.answer) \in Standings \cup {"partially completed"}
      BY <3>4 DEF Words
    <3>6. /\ v \in ViewRows /\ v.job = Nil /\ v.followed = w.job /\ v.status = Words(r.answer)
          /\ v.knows = w.knows /\ v.deleted = w.deleted
      BY <1>4, <3>1, <3>2, <3>5 DEF ViewRows
    <3>7. /\ v.followed \in DOMAIN jobMap' /\ jobMap'[v.followed].result # Nil
          /\ v.status = Words(jobMap'[v.followed].result)
      BY <1>5, <3>2, <3>6 DEF Onward, Words
    <3> QED  BY <1>6, <3>6, <3>7 DEF ViewTrue
  <2> QED  BY <2>1, <2>2, <2>3
<1> QED  BY <1>2, <1>3, <1>4, <1>8, <1>9, ShownKeeps

LEMMA FormKeeps ==
  ASSUME SettingsInv, NEW p \in Pages, FormAnswered(p)
  PROVE  SettingsInv'
<1>1. PICK r : r = Asked(p, "sources")
  OBVIOUS
<1>2. PICK w : w = view[p]
  OBVIOUS
<1>3. r.stage = "answered" /\ UNCHANGED <<server, database, chances>>
  BY <1>1 DEF FormAnswered, AtStage
<1>4. /\ w \in ViewRows /\ ViewTrue(w) /\ FormTrue(r, w) /\ r \in AskedRows
      /\ PollTrue(Asked(p, "poll"), w) /\ "sources" \in Controls /\ ServerTrue
  BY <1>1, <1>2, PageIsTrue DEF Controls, SettingsInv
<1>5. ServerTrue' /\ Onward
  BY <1>3, <1>4, ServerRests DEF ServerTrue, ServerTyped
<1>6. CASE r.kind = "save" /\ SendRequest(p, "sources", "index", r.source, Nil) /\ UNCHANGED view
  <2>1. r.source \in Roots /\ w.job = Nil
    BY <1>3, <1>4, <1>6 DEF FormTrue
  <2>2. PICK s : s = r.source
    OBVIOUS
  <2>3. s \in Roots /\ SendRequest(p, "sources", "index", s, Nil) /\ "index" \in Kinds
    BY <1>6, <2>1, <2>2 DEF Kinds
  <2>4. PagesTrue'
    BY <1>2, <1>4, <1>5, <1>6, <2>1, <2>3, SendingKeeps
  <2> QED  BY <1>5, <2>4 DEF SettingsInv
<1>7. CASE /\ Becomes(p, "sources", Quiet) /\ r.kind = "index" /\ r.answer # Failure
           /\ Display(p, [w EXCEPT !.job = r.id, !.followed = r.id, !.status = "indexing"])
  <2>1. w.job = Nil /\ r.id \in DOMAIN jobMap
    BY <1>3, <1>4, <1>7 DEF FormTrue
  <2>2. r.id \in Nat
    BY <1>4, <2>1, RowsTyped
  <2>3. PICK v : v = [w EXCEPT !.job = r.id, !.followed = r.id, !.status = "indexing"]
    OBVIOUS
  <2>4. /\ v \in ViewRows /\ v.job = r.id /\ v.followed = r.id /\ v.status = "indexing"
        /\ v.knows = w.knows /\ v.deleted = w.deleted
    BY <1>4, <2>2, <2>3 DEF ViewRows
  <2>5. ViewTrue(w)'
    BY <1>4, <1>5, ViewOnward
  <2>6. ViewTrue(v)'
    BY <1>5, <2>1, <2>4, <2>5 DEF ViewTrue, Onward
  <2>7. Asked(p, "poll").stage = "idle"
    BY <1>4, <2>1 DEF PollTrue
  <2>8. PICK k : k = Quiet
    OBVIOUS
  <2>9. k \in AskedRows /\ k.stage = "idle" /\ Becomes(p, "sources", k)
    BY <1>7, <2>8, QuietTyped
  <2>10. PICK poll : poll = IF "sources" = "poll" THEN k ELSE request[p]["poll"]
    OBVIOUS
  <2>11. PICK deletion : deletion = IF "sources" = "delete" THEN k ELSE request[p]["delete"]
    OBVIOUS
  <2>12. PollTrue(poll, v)' /\ FormTrue(k, v)'
    BY <2>7, <2>9, <2>10 DEF PollTrue, FormTrue, Asked
  <2>13. DeletionTrue(deletion)'
    BY <1>4, <1>5, <2>11, PageIsTrue, DeletionOnward DEF Asked
  <2>14. k = IF "sources" = "sources" THEN k ELSE request[p]["sources"]
    OBVIOUS
  <2>15. PagesTrue'
    BY <1>2, <1>4, <1>5, <1>7, <2>3, <2>4, <2>6, <2>9, <2>10, <2>11, <2>12, <2>13, <2>14, ControlsStep
       DEF Display
  <2> QED  BY <1>5, <2>15 DEF SettingsInv
<1>8. CASE Becomes(p, "sources", Quiet) /\ UNCHANGED view
  BY <1>3, <1>4, <1>8, QuietKeeps
<1> QED  BY <1>1, <1>2, <1>6, <1>7, <1>8 DEF FormAnswered

\* A page that is told of the deletion knows which service erased the data.
LEMMA FinishKeeps ==
  ASSUME SettingsInv, NEW p \in Pages, NEW c \in Controls, Finished(p, c)
  PROVE  SettingsInv'
<1>1. PICK r : r = Asked(p, c)
  OBVIOUS
<1>2. PICK w : w = view[p]
  OBVIOUS
<1>3. r.stage = "answered" /\ Becomes(p, c, Quiet) /\ UNCHANGED <<server, database, chances>>
  BY <1>1 DEF Finished, AtStage
<1>4. CASE r.answer = "ok" /\ c = "delete" /\ Display(p, [w EXCEPT !.deleted = r.service])
  <2>1. w \in ViewRows /\ ViewTrue(w) /\ DeletionTrue(r) /\ ServerTrue
    BY <1>1, <1>2, <1>4, PageIsTrue DEF SettingsInv
  <2>2. Onward
    BY <1>3, <2>1, ServerRests DEF ServerTrue, ServerTyped
  <2>3. ViewTrue(w)' /\ DeletionTrue(r)'
    BY <2>1, <2>2, ViewOnward, DeletionOnward
  <2>4. r.service \in Nat
    BY <1>3, <2>1 DEF DeletionTrue
  <2>5. PICK v : v = [w EXCEPT !.deleted = r.service]
    OBVIOUS
  <2>6. /\ v \in ViewRows /\ v.job = w.job /\ v.followed = w.followed /\ v.status = w.status
        /\ v.knows = w.knows /\ v.deleted = r.service
    BY <2>1, <2>4, <2>5 DEF ViewRows
  <2>7. ViewTrue(v)'
    BY <1>3, <1>4, <2>3, <2>6 DEF ViewTrue, DeletionTrue
  <2> QED  BY <1>2, <1>3, <1>4, <2>5, <2>6, <2>7, ShownKeeps
<1>5. CASE UNCHANGED view
  BY <1>3, <1>5, QuietKeeps
<1> QED  BY <1>1, <1>2, <1>4, <1>5 DEF Finished

LEMMA PasteKeeps ==
  ASSUME SettingsInv, NEW p \in Pages, PasteLink(p)
  PROVE  SettingsInv'
<1>1. PICK w : w = view[p]
  OBVIOUS
<1>2. PICK v : v = [w EXCEPT !.knows = local.number]
  OBVIOUS
<1>3. Display(p, v) /\ Becomes(p, "poll", Quiet) /\ UNCHANGED <<server, database, chances>> /\ local' = local
  BY <1>1, <1>2 DEF PasteLink, server
<1>4. w \in ViewRows /\ ViewTrue(w) /\ local.number \in Nat /\ "poll" \in Controls /\ ServerTrue
  BY <1>1, PageIsTrue DEF SettingsInv, ServerTrue, ServerTyped, Controls
<1>5. /\ v \in ViewRows /\ v.knows = local.number /\ v.job = w.job /\ v.followed = w.followed
      /\ v.status = w.status /\ v.deleted = w.deleted
  BY <1>2, <1>4 DEF ViewRows
<1>6. Onward
  BY <1>3, <1>4, ServerRests DEF ServerTrue, ServerTyped
<1>7. ViewTrue(w)'
  BY <1>4, <1>6, ViewOnward
<1>8. ViewTrue(v)'
  <2>1. v.knows <= local'.number
    BY <1>3, <1>4, <1>5
  <2> QED  BY <1>5, <1>7, <2>1 DEF ViewTrue
<1> QED  BY <1>1, <1>3, <1>4, <1>5, <1>8, ShownKeeps

-----------------------------------------------------------------------------
(* The invariant.                                                            *)

\* What the pages show and are told is true of the service and its jobs.
THEOREM SettingsInvariance == SettingsSpec => []SettingsInv
<1>1. SettingsInit => SettingsInv
  <2> SUFFICES ASSUME SettingsInit PROVE SettingsInv
    OBVIOUS
  <2>1. ServerTrue
    <3>1. /\ local = [number |-> 1, up |-> TRUE, data |-> TRUE, upkeep |-> Nil]
          /\ source = [s \in Roots |-> "absent"] /\ evidence = {} /\ runs = <<>> /\ jobMap = <<>>
          /\ chances \in Chances
      BY DEF SettingsInit
    <3>2. /\ local \in [number : Nat, up : BOOLEAN, data : BOOLEAN, upkeep : Pages \cup {Nil}]
          /\ source \in [Roots -> {"absent", "enabled", "paused"}] /\ evidence \subseteq Roots
      BY <3>1
    <3>3. chances \in [clicks : Nat, stops : Nat]
      BY <3>1, SettingsAssumption
    <3>4. runs \in Seq(RunRows) /\ jobMap \in Seq(JobRows) /\ DOMAIN runs = {} /\ DOMAIN jobMap = {}
      BY <3>1
    <3>5. RunsTrue /\ JobsTrue
      BY <3>1, <3>4 DEF RunsTrue, JobsTrue
    <3> QED  BY <3>2, <3>3, <3>4, <3>5 DEF ServerTrue, ServerTyped
  <2>2. PICK v : v = [knows |-> 1, job |-> Nil, followed |-> Nil, status |-> "", deleted |-> Nil]
    OBVIOUS
  <2>3. PICK req : req = [c \in Controls |-> Quiet]
    OBVIOUS
  <2>4. view = [p \in Pages |-> v] /\ request = [p \in Pages |-> req] /\ local.number = 1
    BY <2>2, <2>3 DEF SettingsInit
  <2>5. v \in ViewRows /\ req \in [Controls -> AskedRows] /\ \A c \in Controls : req[c].stage = "idle"
    BY <2>2, <2>3, QuietTyped DEF ViewRows
  <2>6. Nil \notin Nat
    BY SettingsAssumption
  <2>7. ViewTrue(v)
    <3>1. v.knows = 1 /\ local.number = 1
      BY <2>2, <2>4
    <3>2. v.job = Nil /\ v.deleted = Nil
      BY <2>2
    <3>3. v.status = ""
      BY <2>2
    <3>4. v.knows <= local.number /\ v.deleted # local.number
      BY <2>6, <3>1, <3>2
    <3> QED  BY <3>2, <3>3, <3>4 DEF ViewTrue
  <2>8. PageTrue(v, req)
    BY <2>5, <2>7 DEF PageTrue, PollTrue, FormTrue, DeletionTrue, Controls
  <2>9. PagesTrue
    BY <2>4, <2>5, <2>8 DEF PagesTrue
  <2> QED  BY <2>1, <2>9 DEF SettingsInv
<1>2. SettingsInv /\ [SettingsNext]_settingsVars => SettingsInv'
  <2> SUFFICES ASSUME SettingsInv, [SettingsNext]_settingsVars PROVE SettingsInv'
    OBVIOUS
  <2> USE DEF SettingsInv
  <2>1. ASSUME NEW r \in DOMAIN runs, StartReading(r) \/ StoreEvents(r) \/ RunEnds(r) PROVE SettingsInv'
    <3>1. UNCHANGED <<view, request>>
      BY <2>1 DEF StartReading, StoreEvents, RunEnds
    <3>2. ServerTrue' /\ Onward
      BY <2>1, ReadKeeps, EventsKeep, EndKeeps
    <3> QED  BY <3>1, <3>2, PagesOnward
  <2>2. ASSUME NEW s \in Roots, TimerRefreshes(s) PROVE SettingsInv'
    BY <2>2, TimerKeeps
  <2>3. ASSUME NEW j \in DOMAIN jobMap, Drop(j) PROVE SettingsInv'
    <3>1. ServerTrue' /\ Onward
      BY <2>3, DropKeeps DEF Drop, database
    <3> QED  BY <2>3, <3>1, PagesOnward DEF Drop
  <2>4. ASSUME NEW p \in Pages,
               \/ \E s \in Roots : AskAdd(p, s) \/ AskRemove(p, s)
               \/ AskCancel(p) \/ AskClear(p) \/ AskDelete(p) \/ AskStatus(p)
        PROVE  SettingsInv'
    BY <2>4, AskKeeps
  <2>5. ASSUME NEW p \in Pages, Told(p) \/ FormAnswered(p) \/ PasteLink(p) PROVE SettingsInv'
    BY <2>5, ToldKeeps, FormKeeps, PasteKeeps
  <2>6. ASSUME NEW p \in Pages,
               UpsertSource(p) \/ IndexJob(p) \/ JobStatus(p) \/ BeginCancel(p) \/ EndCancel(p)
        PROVE  SettingsInv'
    BY <2>6, UpsertKeeps, IndexKeeps, StatusKeeps, BeginCancelKeeps, EndCancelKeeps
  <2>7. ASSUME NEW p \in Pages, BeginRemove(p) \/ EndRemove(p) \/ EndClear(p) \/ EndDelete(p) PROVE SettingsInv'
    BY <2>7, BeginRemoveKeeps, EndRemoveKeeps, ClearKeeps, DeleteKeeps
  <2>8. ASSUME NEW p \in Pages, NEW c \in Controls, Fail(p, c) \/ StartUpkeep(p, c) \/ Finished(p, c)
        PROVE  SettingsInv'
    BY <2>8, FailKeeps, UpkeepKeeps, FinishKeeps
  <2>9. CASE ServiceStops
    BY <2>9, ServiceStopKeeps
  <2>10. CASE ServiceRestarts
    <3>1. ServerTrue' /\ Onward
      BY <2>10, RestartKeeps
    <3> QED  BY <2>10, <3>1, PagesOnward DEF ServiceRestarts
  <2>11. CASE UNCHANGED settingsVars
    <3>1. ServerTrue' /\ Onward
      BY <2>11, ServerRests DEF settingsVars, ServerTrue, ServerTyped
    <3> QED  BY <2>11, <3>1, PagesOnward DEF settingsVars
  <2> QED
    BY <2>1, <2>2, <2>3, <2>4, <2>5, <2>6, <2>7, <2>8, <2>9, <2>10, <2>11 DEF SettingsNext
<1> QED  BY <1>1, <1>2, PTL DEF SettingsSpec

\* The status a page ends with is that of its own job's run, a cancellation that
\* is answered has waited, and what is said to be removed or deleted is gone.
THEOREM SettingsAreTrue == SettingsSpec => []SettingsTruthful
<1>1. SettingsInv => SettingsTruthful
  <2> SUFFICES ASSUME SettingsInv PROVE SettingsTruthful
    OBVIOUS
  <2>1. ASSUME NEW p \in Pages, view[p].status \in {"completed", "partially completed", "cancelled", "failed"},
               NEW job, job = jobMap[view[p].followed]
        PROVE  view[p].status = IF job.run = Nil THEN "failed" ELSE Words(runs[job.run].state)
    <3>1. /\ view[p].followed \in DOMAIN jobMap /\ job.result # Nil /\ view[p].status = Words(job.result)
      BY <2>1, PageIsTrue DEF ViewTrue
    <3>2. JobTrue(job)
      BY <2>1, <3>1, JobTyped DEF SettingsInv
    <3> QED  BY <3>1, <3>2 DEF JobTrue, Words
  <2>2. StatusIsOfItsRun
    BY <2>1 DEF StatusIsOfItsRun
  <2>3. ASSUME NEW p \in Pages, NEW r, r = Asked(p, "sources"),
               r.stage = "answered", r.kind = "cancel", r.answer = "ok"
        PROVE  Ended(r.job)
    BY <2>3, PageIsTrue DEF FormTrue
  <2>4. \A s \in Roots : source[s] = "absent" => s \notin evidence
    BY RowsTyped DEF SettingsInv
  <2>5. \A p \in Pages : view[p].deleted = local.number => ~local.data /\ evidence = {}
    BY PageIsTrue DEF ViewTrue, Erased
  <2> QED  BY <2>2, <2>3, <2>4, <2>5 DEF SettingsTruthful, AnswersHold, AtStage, Ended
<1> QED  BY <1>1, SettingsInvariance, PTL
===============================================================================
