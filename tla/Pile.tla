-------------------------------- MODULE Pile --------------------------------
(***************************************************************************)
(* The shopper's pile in the browser: the hook usePile and its storage,    *)
(* the PileProvider and its toast, the ShopperProvider that sends the pile *)
(* to the Discogs Wantlist, the sheet that shows the pile as a modal       *)
(* dialog with its focus trap, and the layout that opens it.  One tab: a   *)
(* store page is mounted, left and mounted again; a click and the renders  *)
(* and effects it causes are one step, as React flushes them before the    *)
(* next event.  What a component renders is an operator of the page, and   *)
(* an action needs its control to be on screen.                            *)
(***************************************************************************)
EXTENDS Naturals, Sequences, FiniteSets

CONSTANTS
    Stores,        \* slugs of stores
    Records,       \* listings
    StoreOf,       \* the store that sells a record
    Handoff,       \* stores with handoff_available
    SellerKnown,   \* stores with a Discogs user id, whose Wantlist has an address
    NoStore,       \* no store page is mounted
    NoRecord,      \* lastAdded is null
    Unreadable,    \* nothing stored under a key, or no JSON
    MaxInFlight    \* bound: requests that have not been answered

ASSUME PileAssumption ==
    /\ StoreOf \in [Records -> Stores]
    /\ Handoff \subseteq Stores /\ SellerKnown \subseteq Stores
    /\ NoStore \notin Stores /\ NoRecord \notin Records
    /\ Unreadable \notin Seq(Records)
    /\ MaxInFlight \in Nat

VARIABLES
    stored,     \* localStorage: the pile under every store's key
    at,         \* the store whose page is mounted
    page,       \* the state of the mounted page's components
    shopper,    \* the session is connected to Discogs
    requests,   \* wantlist requests in flight, by slot
    wantlist    \* the records on the shopper's Discogs Wantlist

vars == <<stored, at, page, shopper, requests, wantlist>>

-----------------------------------------------------------------------------
(* What can have the focus.                                                *)

Element(k) == [kind |-> k, rec |-> NoRecord]
Link(r)    == [kind |-> "link", rec |-> r]
Remove(r)  == [kind |-> "remove", rec |-> r]
Toggle(r)  == [kind |-> "toggle", rec |-> r]

Body       == Element("body")
Header     == Element("header")
PileButton == Element("pile")
Title      == Element("title")

Listed(pile) == { pile[i] : i \in DOMAIN pile }

-----------------------------------------------------------------------------
(* The controls of the open sheet, in the order of the document.           *)

ClearControls(p) ==
    IF p.pile = <<>> THEN <<>>
    ELSE IF p.confirm THEN <<Element("yes"), Element("no")>>
    ELSE <<Element("clear")>>

HeaderControls(p) == ClearControls(p) \o <<Element("close")>>

\* A record shows a link to its listing and a button that removes it.
RecordControls(p) ==
    [i \in 1 .. 2 * Len(p.pile) |->
        IF i % 2 = 1 THEN Link(p.pile[(i + 1) \div 2]) ELSE Remove(p.pile[i \div 2])]

ConnectedAccount == IF shopper THEN <<Element("disconnect")>> ELSE <<>>

HandoffControls(s) ==
    IF s \notin Handoff THEN <<>>
    ELSE IF shopper THEN <<Element("send")>>
    ELSE <<Element("connect")>>

\* With a seller's address the result is a link to shop from, without it a
\* button that dismisses the result.
ResultControls(s) ==
    IF s \in SellerKnown THEN <<Element("shop")>> ELSE <<Element("keep")>>

\* The one action the footer offers.  The button of a request in progress is
\* disabled and takes no focus.
PickAction(p, s) ==
    CASE p.wl = "creating" -> <<>>
      [] p.wl = "success"  -> ResultControls(s)
      [] p.wl = "error"    -> <<Element("retry")>>
      [] p.wl = "idle"     -> HandoffControls(s)

FooterControls(p, s) ==
    IF p.pile = <<>> THEN <<>> ELSE ConnectedAccount \o PickAction(p, s)

SheetControls(p, s) ==
    IF p.open THEN HeaderControls(p) \o RecordControls(p) \o FooterControls(p, s)
    ELSE <<>>

Shows(c) == at # NoStore /\ c \in Listed(SheetControls(page, at))

\* The elements of the sheet, the title included.
Sheet(p, s) ==
    IF p.open THEN { Title } \cup Listed(SheetControls(p, s)) ELSE {}

\* The page behind the sheet is inert while the sheet is open.
Behind(p, s) ==
    IF p.open THEN {}
    ELSE { Header } \cup { Toggle(r) : r \in { x \in Records : StoreOf[x] = s } }
                    \cup (IF p.pile = <<>> THEN {} ELSE { PileButton })

-----------------------------------------------------------------------------
(* A render and its effects.                                               *)

\* An element that is no longer in the document loses the focus to the body.
Blurred(p, s) ==
    IF p.focus \in Sheet(p, s) \cup Behind(p, s) THEN p ELSE [p EXCEPT !.focus = Body]

\* The effect without the request's state among its dependencies.
RefocusedOnPileOnly(old, p, s) ==
    IF /\ p.open
       /\ ~old.open \/ Len(p.pile) # Len(old.pile) \/ p.confirm # old.confirm
       /\ p.focus \notin Sheet(p, s)
    THEN [p EXCEPT !.focus = Title]
    ELSE p

\* The sheet's effect takes a lost focus back to the title after a change of
\* open, of the pile's length, of the confirmation or of the request's state.
Refocused(old, p, s) ==
    IF /\ p.open
       /\ \/ ~old.open
          \/ Len(p.pile) # Len(old.pile)
          \/ p.confirm # old.confirm
          \/ p.wl # old.wl
       /\ p.focus \notin Sheet(p, s)
    THEN [p EXCEPT !.focus = Title]
    ELSE p

Rendered(p) == Refocused(page, Blurred(p, at), at)

\* The trap remembers what had the focus and gives it to the title; closing
\* gives it back, or to the header when the element is gone.
Engaged(p) == [p EXCEPT !.opener = p.focus, !.focus = Title]

Restored(p, s) ==
    [p EXCEPT !.focus = IF p.opener \in { Body } \cup Behind(p, s)
                        THEN p.opener ELSE Header]

-----------------------------------------------------------------------------
(* The pile and its storage.                                               *)

StorageKey(s) == s

LoadStoredPile(s) ==
    IF stored[StorageKey(s)] = Unreadable THEN <<>> ELSE stored[StorageKey(s)]

\* The latest record first.
WithRecordFirst(pile, r) == IF r \in Listed(pile) THEN pile ELSE <<r>> \o pile

WithRecord(pile, r) == IF r \in Listed(pile) THEN pile ELSE Append(pile, r)

\* The filter; as a function, which can be reasoned about.
WithoutRecord(pile, r) ==
    LET kept[n \in 0 .. Len(pile)] ==
            IF n = 0 THEN <<>>
            ELSE IF pile[n] = r THEN kept[n - 1] ELSE Append(kept[n - 1], pile[n])
    IN  kept[Len(pile)]

InPile(r) == r \in Listed(page.pile)

\* The storage effect runs after every change of the pile.
\* Persist without the effect's key on the pile: it runs at mount only.
PersistAtMount == UNCHANGED stored

Persist == stored' = [stored EXCEPT ![StorageKey(at)] = page'.pile]

Blank ==
    [pile |-> <<>>, toast |-> NoRecord, open |-> FALSE, auto |-> FALSE,
     confirm |-> FALSE, wl |-> "idle", focus |-> Body, opener |-> Body]

NewPage(s, auto) == [Blank EXCEPT !.pile = LoadStoredPile(s), !.auto = auto]

\* The states of the page's components when a store's page is mounted; the
\* address may ask for the open sheet.
Mounted(s, auto) ==
    IF auto THEN Engaged([NewPage(s, auto) EXCEPT !.open = TRUE]) ELSE NewPage(s, auto)

\* A page that is gone does not hear the answers to its requests.
Forgotten == [q \in DOMAIN requests |-> [requests[q] EXCEPT !.live = FALSE]]

MountPage(s, auto) ==
    /\ at' = s
    /\ page' = Mounted(s, auto)
    /\ stored' = [stored EXCEPT ![StorageKey(s)] = LoadStoredPile(s)]
    /\ requests' = Forgotten
    /\ UNCHANGED wantlist

Free == [busy |-> FALSE, live |-> FALSE, items |-> {}]

Init ==
    /\ stored = [s \in Stores |-> Unreadable]
    /\ at = NoStore
    /\ page = Blank
    /\ shopper = FALSE
    /\ requests = [q \in 1 .. MaxInFlight |-> Free]
    /\ wantlist = {}

-----------------------------------------------------------------------------
(* The shopper on the store's page.                                        *)

\* A link, the address bar or the history brings a store's page up.
Visit(s) == MountPage(s, FALSE) /\ UNCHANGED shopper

Reload == at # NoStore /\ MountPage(at, page.auto) /\ UNCHANGED shopper

Leave ==
    /\ at # NoStore
    /\ at' = NoStore
    /\ page' = Blank
    /\ requests' = Forgotten
    /\ UNCHANGED <<stored, shopper, wantlist>>

AddToPile(r) ==
    /\ at = StoreOf[r] /\ ~page.open /\ ~InPile(r)
    /\ page' = Rendered([page EXCEPT !.pile = WithRecord(@, r), !.toast = r,
                                     !.focus = Toggle(r)])
    /\ Persist
    /\ UNCHANGED <<at, shopper, requests, wantlist>>

\* The record's own button takes it out again.
RemoveOnPage(r) ==
    /\ at = StoreOf[r] /\ ~page.open /\ InPile(r)
    /\ page' = Rendered([page EXCEPT !.pile = WithoutRecord(@, r), !.focus = Toggle(r)])
    /\ Persist
    /\ UNCHANGED <<at, shopper, requests, wantlist>>

ToastTimeout ==
    /\ page.toast # NoRecord
    /\ page' = [page EXCEPT !.toast = NoRecord]
    /\ UNCHANGED <<stored, at, shopper, requests, wantlist>>

\* The button is in the header as long as the pile holds a record.
OpenPile ==
    /\ at # NoStore /\ PileButton \in Behind(page, at)
    /\ page' = Rendered(Engaged([page EXCEPT !.open = TRUE, !.focus = PileButton]))
    /\ UNCHANGED <<stored, at, shopper, requests, wantlist>>

-----------------------------------------------------------------------------
(* The shopper in the sheet.                                               *)

\* Close, the backdrop and Escape; the effect on open resets the result.
ClosePile ==
    /\ at # NoStore /\ page.open
    /\ page' = Restored([page EXCEPT !.open = FALSE, !.confirm = FALSE,
                                     !.wl = "idle"], at)
    /\ UNCHANGED <<stored, at, shopper, requests, wantlist>>

RequestClear ==
    /\ Shows(Element("clear"))
    /\ page' = Rendered([page EXCEPT !.confirm = TRUE, !.focus = Element("clear")])
    /\ UNCHANGED <<stored, at, shopper, requests, wantlist>>

CancelClear ==
    /\ Shows(Element("no"))
    /\ page' = Rendered([page EXCEPT !.confirm = FALSE, !.focus = Element("no")])
    /\ UNCHANGED <<stored, at, shopper, requests, wantlist>>

ClearPile ==
    /\ Shows(Element("yes"))
    /\ page' = Rendered([page EXCEPT !.pile = <<>>, !.confirm = FALSE,
                                     !.focus = Element("yes")])
    /\ Persist
    /\ UNCHANGED <<at, shopper, requests, wantlist>>

RemoveInSheet(r) ==
    /\ Shows(Remove(r))
    /\ page' = Rendered([page EXCEPT !.pile = WithoutRecord(@, r), !.focus = Remove(r)])
    /\ Persist
    /\ UNCHANGED <<at, shopper, requests, wantlist>>

\* Tab never moves the focus inside the dialog: it goes to the first control
\* from the last, and to the last from the first or the title.
TabTarget(shift) ==
    LET c     == SheetControls(page, at)
        first == c[1]
        last  == c[Len(c)]
        out   == page.focus \notin Sheet(page, at)
    IN  IF shift
        THEN IF page.focus \in { first, Title } \/ out THEN last ELSE page.focus
        ELSE IF page.focus = last \/ out THEN first ELSE page.focus

PressTab(shift) ==
    /\ at # NoStore /\ page.open
    /\ page' = [page EXCEPT !.focus = TabTarget(shift)]
    /\ UNCHANGED <<stored, at, shopper, requests, wantlist>>

-----------------------------------------------------------------------------
(* The Wantlist.                                                           *)

\* addToWantlist: the request carries the listings of the pile.
SendToWantlist(q) ==
    /\ Shows(Element("send")) /\ ~requests[q].busy
    /\ page' = Rendered([page EXCEPT !.wl = "creating",
                                     !.focus = Element("send")])
    /\ requests' = [requests EXCEPT
            ![q] = [busy |-> TRUE, live |-> TRUE, items |-> Listed(page.pile)]]
    /\ UNCHANGED <<stored, at, shopper, wantlist>>

\* The server adds some of the listings and answers; without an addition, or
\* when the request fails, the answer is an error.
Serve(added) == wantlist' = wantlist \cup added

Answer(q, wl) ==
    /\ requests' = [requests EXCEPT ![q] = Free]
    /\ page' = IF requests[q].live
               THEN Rendered([page EXCEPT !.wl = wl])
               ELSE page
    /\ UNCHANGED <<stored, at, shopper>>

AnswerSuccess(q) == \E added \in SUBSET requests[q].items :
    /\ requests[q].busy /\ added # {}
    /\ Serve(added) /\ Answer(q, "success")

\* An error that is not caught leaves the request in progress on screen.
AnswerErrorUncaught(q) == \E added \in SUBSET requests[q].items :
    /\ requests[q].busy
    /\ Serve(added)
    /\ requests' = [requests EXCEPT ![q] = Free]
    /\ UNCHANGED <<stored, at, page, shopper>>

AnswerError(q) == \E added \in SUBSET requests[q].items :
    /\ requests[q].busy
    /\ Serve(added) /\ Answer(q, "error")

\* "Try again" and "Keep browsing" reset the result.
ResetResult(c) ==
    /\ c \in { Element("retry"), Element("keep") } /\ Shows(c)
    /\ page' = Rendered([page EXCEPT !.wl = "idle", !.focus = c])
    /\ UNCHANGED <<stored, at, shopper, requests, wantlist>>

\* The form leaves for Discogs; authorised, the shopper comes back to a page
\* whose address opens the pile.
Connect ==
    /\ Shows(Element("connect"))
    /\ \E ok \in BOOLEAN : shopper' = ok /\ MountPage(at, ok)

\* The form is in the sheet and in the footer of the page.
Disconnect ==
    /\ at # NoStore /\ shopper
    /\ page.open => Shows(Element("disconnect"))
    /\ shopper' = FALSE
    /\ MountPage(at, page.auto)

-----------------------------------------------------------------------------
Next ==
    \/ \E s \in Stores : Visit(s)
    \/ Reload \/ Leave
    \/ \E r \in Records : AddToPile(r) \/ RemoveOnPage(r) \/ RemoveInSheet(r)
    \/ ToastTimeout \/ OpenPile \/ ClosePile
    \/ RequestClear \/ CancelClear \/ ClearPile
    \/ \E shift \in BOOLEAN : PressTab(shift)
    \/ \E q \in DOMAIN requests : SendToWantlist(q) \/ AnswerSuccess(q) \/ AnswerError(q)
    \/ \E c \in { Element("retry"), Element("keep") } : ResetResult(c)
    \/ Connect \/ Disconnect

Spec == Init /\ [][Next]_vars

-----------------------------------------------------------------------------
(* Properties.                                                             *)

Elements ==
    [kind : { "body", "header", "pile", "title", "clear", "yes", "no", "close",
              "disconnect", "send", "connect", "shop", "keep", "retry" },
     rec : { NoRecord }]
    \cup [kind : { "link", "remove", "toggle" }, rec : Records]

Page == [pile : Seq(Records), toast : Records \cup { NoRecord }, open : BOOLEAN,
         auto : BOOLEAN, confirm : BOOLEAN,
         wl : { "idle", "creating", "success", "error" },
         focus : Elements, opener : Elements]

TypeOK ==
    /\ stored \in [Stores -> Seq(Records) \cup { Unreadable }]
    /\ at \in Stores \cup { NoStore }
    /\ page \in Page
    /\ shopper \in BOOLEAN
    /\ requests \in [1 .. MaxInFlight ->
            [busy : BOOLEAN, live : BOOLEAN, items : SUBSET Records]]
    /\ wantlist \subseteq Records

\* What the rest rests on: the storage is in step with the mounted page, every
\* pile lists records of its own store once, a closed sheet asks nothing, and a
\* page that is gone has left no request that would still change a page.
StoredIsShown == at # NoStore => stored[at] = page.pile

PilesAreOwn ==
    \A s \in Stores : stored[s] # Unreadable =>
        /\ \A i \in DOMAIN stored[s] : StoreOf[stored[s][i]] = s
        /\ \A i, j \in DOMAIN stored[s] : stored[s][i] = stored[s][j] => i = j

ClosedIsReset == ~page.open => ~page.confirm

RequestsAreOfPage ==
    \A q \in DOMAIN requests :
        /\ ~requests[q].busy => requests[q] = Free
        /\ requests[q].live =>
             at # NoStore /\ \A r \in requests[q].items : StoreOf[r] = at

PileInv ==
    /\ TypeOK
    /\ StoredIsShown
    /\ PilesAreOwn
    /\ ClosedIsReset
    /\ RequestsAreOfPage
    /\ at = NoStore => page = Blank

\* The pile of every store, on screen for the mounted page and in the storage
\* for the others, is a pile of that store's records without repetition and
\* changes only as the shopper's ledger says: reloading, leaving, another
\* store's page and the way to Discogs and back lose and mix up nothing.
Ledger == INSTANCE PileLedger WITH
    shelf <- [s \in Stores |-> IF s = at THEN page.pile ELSE LoadStoredPile(s)]
ImplementsPiles == Ledger!Spec

\* The focus is never lost: in the open sheet it is on the title or on one of
\* the controls on screen, whatever a removal, a confirmation or an answer took
\* away, and on the page it is on an element that is there, or on the body,
\* never on the closed sheet.
FocusIsPlaced ==
    at # NoStore =>
        page.focus \in IF page.open THEN Sheet(page, at)
                       ELSE { Body } \cup Behind(page, at)

\* What the sheet says of a request is true: a request in progress is in
\* flight for this page, and a result means that a record of this store is on
\* the Wantlist, whatever was closed, reopened, sent again or answered late.
AnswersAreReal ==
    /\ page.wl = "creating" => \E q \in DOMAIN requests : requests[q].live
    /\ page.wl = "success" => \E r \in wantlist : StoreOf[r] = at
=============================================================================
