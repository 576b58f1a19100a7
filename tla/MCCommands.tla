----------------------------- MODULE MCCommands -----------------------------
(***************************************************************************)
(* The components between people and the database: commands and forms,     *)
(* order sessions, accounts and their rights, lists, the worker and the    *)
(* till, the sharing of goods, stores and ratios, and the reset of test    *)
(* data, each on instances of its own (see MCGoods: part names the         *)
(* component a behaviour is about). The instances named Fair are for what  *)
(* must eventually happen; FairSpec states under which fairness.           *)
(***************************************************************************)
EXTENDS Integers, Sequences, FiniteSets, TLC

CONSTANTS Parts, u1, u2, b1, b2, m1, m2, s1, s2, s3, n1, n2, q1, q2, a1, a2,
          t1, t2, t3, g1, g2, r1, r2, w1, w2, i1, k1, k2, A, B, NoBody,
          NoStore

\* Dates of sessions, stores of the lists and where a row may be.
TwoDays == <<0, 0, 1>>
OneDay == <<0, 0>>
TwoStores == <<s1, s2>>
ThreeInARow == <<s1, s2, s3>>
ThreeStores == {"home", "shop", "desk"}
Shops == {"home", "shop"}
ThreePlaces == {<<"home", "shop">>, <<"shop", "home">>, <<"desk", "desk">>}
TwoPlaces == {<<"home", "home">>, <<"shop", "shop">>}
OnePlace == {<<"home", "home">>}

InOrder(ops) == [o \in ops |-> o]

Idle == "idle"

VARIABLE part      \* the component this behaviour is about, one of Parts

\* A command that is repeated under its key
VARIABLES serverClock, commandForm, sentAttempts, drawn, attempt, holder,
          keyRecord, effects

\* The forms of the web application
VARIABLES draftForm, content, shown, kept, awaited, answer, sent, waiting,
          running, done, dataVersion, round

\* Order sessions and requests
VARIABLES now, startedAt, orderSession, taken, requests, submission

\* Orders of the in-memory server
VARIABLES orderClock, serverSession, serverRequest

\* Accounts and their sessions
VARIABLES account, tabSession, login, accountForm, failureWindow, guesses,
          admitted

\* The session cookies of the tabs of a browser
VARIABLES jar, logins, ended, evicted, tabClock, lastSeen, lastUsed, asked,
          opened, loginAnswer

\* Accounts of the in-memory server
VARIABLES serverAccount, pending, session, assignment, store, group

\* Who may give which command, now and when it is repeated
VARIABLES command, who, kind, world, stamp, changes, completed, request

\* Lists that are read page by page while others write
VARIABLES list, role, named, filter, assigned, open, past, pages

\* The loop of the worker and its heartbeat
VARIABLES workerClock, polled, dbUp, exists, snapshotTaken, allocated,
          cancelled, broken, proc, heartbeat, faults

\* The figures of the till at IDOSI
VARIABLES phase, polledPhase, till, closing, charged, age, settled, targets,
          calls, crashes

\* The rounds in which goods are shared
VARIABLES active, cursor, pc, demanded, left, snapshot, shareable, ring, at,
          tier, roundStart, offset, grants, madeAnyGrant, passedOver

\* Groups, stores and the accounts of stores
VARIABLES storeGroup, storeRow, storeAccount, creating, storeForm, work,
          moving

\* The conversion ratios of a product
VARIABLES versions, today, versionPage

\* The reset of test data
VARIABLES businessRows, idem, replay, resetPhase, manifest, api, entered,
          copies, proof, resetTabs, resetSent, composed, runs, applied, purged

repeatVars == <<serverClock, commandForm, sentAttempts, drawn, attempt,
                holder, keyRecord, effects>>
webVars == <<draftForm, content, shown, kept, awaited, answer, sent, waiting,
             running, done, dataVersion, round>>
sessionVars == <<now, startedAt, orderSession, taken, requests, submission>>
serverOrderVars == <<orderClock, serverSession, serverRequest>>
accountVars == <<account, tabSession, login, accountForm, failureWindow,
                 guesses, admitted>>
tabVars == <<jar, logins, ended, evicted, tabClock, lastSeen, lastUsed, asked,
             opened, loginAnswer>>
serverAccountVars == <<serverAccount, pending, session, assignment, store,
                       group>>
rightVars == <<command, who, kind, world, stamp, changes, completed,
               request>>
listVars == <<list, role, named, filter, assigned, open, past, pages>>
workerVars == <<workerClock, polled, dbUp, exists, snapshotTaken, allocated,
                cancelled, broken, proc, heartbeat, faults>>
tillVars == <<phase, polledPhase, till, closing, charged, age, settled,
              targets, calls, crashes>>
shareVars == <<active, cursor, pc, demanded, left, snapshot, shareable, ring,
               at, tier, roundStart, offset, grants, madeAnyGrant,
               passedOver>>
lifecycleVars == <<storeGroup, storeRow, storeAccount, creating, storeForm,
                   work, moving>>
ratioVars == <<versions, today, versionPage>>
resetVars == <<businessRows, idem, replay, resetPhase, manifest, api, entered,
               copies, proof, resetTabs, resetSent, composed, runs, applied,
               purged>>

vars == <<part, repeatVars, webVars, sessionVars, serverOrderVars,
          accountVars, tabVars, serverAccountVars, rightVars, listVars,
          workerVars, tillVars, shareVars, lifecycleVars, ratioVars, resetVars>>

\* The names of commands, lists and forms.
Named == INSTANCE CommandAuthority WITH Commands <- {}, Requests <- {}, MaxChanges <- 0
Catalog == INSTANCE ReadLists WITH
    Lists <- {}, Readers <- {}, Stores <- {}, Retail <- {}, Home <- "home", NamedStores <- {},
    Filtering <- FALSE, Placement <- {}, StartRows <- 0, MaxRows <- 0, PageSize <- 1,
    FetchSize <- 1, InFlight <- 1, MaxChanges <- 0
Screen == INSTANCE WebCommands WITH
    Contents <- {}, Forms <- {}, MaxSends <- 0, MaxChanges <- 0,
    form <- draftForm, version <- dataVersion

\* Lists that differ in how pages are read, ordered and merged.
Paged == {Catalog!StoreOutbounds, Catalog!WaitTickets, Catalog!PriorityOffers,
          Catalog!ReceiptAdjustments, Catalog!Receipts, Catalog!OrderHistory,
          Catalog!ReceiptSources}
Snapshots == {Catalog!OrderHistory, Catalog!AllocationDecisions, Catalog!ReshareOrders,
              Catalog!WaitDocuments}

\* Forms by where they keep the key of a command whose outcome is not known.
SlotForms == {Screen!AllocationAnswer, Screen!OfferAnswer, Screen!OfferNoticeAnswer,
              Screen!TicketCancellation, Screen!DocumentCancellation,
              Screen!StockAdjustment, Screen!Observation, Screen!ReshareStatus,
              Screen!SourceSetting, Screen!SupplierOrder,
              Screen!SupplierOrderCancellation, Screen!AccountForm}
MapForms == {Screen!StoreEdit, Screen!ReceiptCommand, Screen!BagOpening, Screen!Sorting,
             Screen!BucketMove, Screen!TransferCommand, Screen!SaleTransfer,
             Screen!SaleTransferReceipt, Screen!SaleTransferCancellation,
             Screen!GoodsReceipt, Screen!SessionCommand, Screen!OrderCancellation}
FrozenForms == {Screen!WarehouseInbound, Screen!EmergencyStatus, Screen!ShortageDecision}

-----------------------------------------------------------------------------
(* A command that is repeated under its key. *)

\* What is repeated is IdempotentCommands with the constants that c names,
\* Browser!Once(c); its name is that of the module with the proofs about it.
Browser == INSTANCE IdempotentCommandsProofs WITH
    now <- serverClock, form <- commandForm, request <- attempt,
    record <- keyRecord, sent <- sentAttempts, posted <- sent

\* One command, three requests.
OneCommand == [user |-> {u1}, panel |-> {}, body |-> {b1}, noBody |-> NoBody,
               ttl |-> 1, retention |-> 0, maxAttempts |-> 2, maxRequests |-> 3,
               maxTime |-> 1]

\* Long enough for a record to be pruned.
AgedCommand == [user |-> {u1}, panel |-> {}, body |-> {b1}, noBody |-> NoBody,
                ttl |-> 1, retention |-> 0, maxAttempts |-> 2, maxRequests |-> 2,
                maxTime |-> 2]

\* A form that keeps its key by document, and two contents.
PanelCommand == [user |-> {u1}, panel |-> {u1}, body |-> {b1, b2}, noBody |-> NoBody,
                 ttl |-> 1, retention |-> 0, maxAttempts |-> 2, maxRequests |-> 2,
                 maxTime |-> 1]

\* Two requests of one command.
FairCommand == INSTANCE IdempotentCommands WITH
    User <- {u1}, Panel <- {}, Body <- {b1}, Ttl <- 1, Retention <- 0,
    MaxAttempts <- 2, MaxRequests <- 2, MaxTime <- 0, now <- serverClock,
    form <- commandForm, request <- attempt, record <- keyRecord,
    sent <- sentAttempts

NoRepeated ==
    /\ serverClock = Idle /\ commandForm = Idle /\ sentAttempts = Idle
    /\ drawn = Idle /\ attempt = Idle /\ holder = Idle /\ keyRecord = Idle
    /\ effects = Idle

RepeatedInit ==
    \/ part = "Once" /\ Browser!Once(OneCommand)!Init
    \/ part = "Aged" /\ Browser!Once(AgedCommand)!Init
    \/ part = "Panels" /\ Browser!Once(PanelCommand)!Init
    \/ part = "FairCommand" /\ FairCommand!Init
    \/ part \notin {"Once", "Aged", "Panels", "FairCommand"} /\ NoRepeated

OnlyRepeated == UNCHANGED <<part, webVars, sessionVars, serverOrderVars,
                            accountVars, tabVars, serverAccountVars,
                            rightVars, listVars, workerVars, tillVars,
                            shareVars, lifecycleVars, ratioVars, resetVars>>

OnceStep == part = "Once" /\ Browser!Once(OneCommand)!Next /\ OnlyRepeated
AgedStep == part = "Aged" /\ Browser!Once(AgedCommand)!Next /\ OnlyRepeated
PanelsStep == part = "Panels" /\ Browser!Once(PanelCommand)!Next /\ OnlyRepeated
FairCommandStep == part = "FairCommand" /\ FairCommand!Next /\ OnlyRepeated

-----------------------------------------------------------------------------
(* The forms of the web application. *)

\* WebCommands with the constants that c names is Browser!Web(c).

\* Forms with one key kept.
SlotPages == [contents |-> {A, B}, forms |-> SlotForms, maxSends |-> 2, maxChanges |-> 1]

\* Forms with a key for each request.
MapPages == [contents |-> {A, B}, forms |-> MapForms, maxSends |-> 2, maxChanges |-> 1]

\* Forms that freeze the request with its key.
FrozenPages == [contents |-> {A, B}, forms |-> FrozenForms, maxSends |-> 2, maxChanges |-> 1]

\* The form of goods a partner brings: its key is kept with a request that holds
\* the time it was put together.
PartnerPages == [contents |-> {A, B}, forms |-> {Screen!PartnerInbound},
                 maxSends |-> 3, maxChanges |-> 1]

NoWeb ==
    /\ draftForm = Idle /\ content = Idle /\ shown = Idle /\ kept = Idle
    /\ awaited = Idle /\ answer = Idle /\ sent = Idle /\ waiting = Idle
    /\ running = Idle /\ done = Idle /\ dataVersion = Idle /\ round = Idle

WebInit ==
    \/ part = "Slots" /\ Browser!Web(SlotPages)!Init
    \/ part = "Maps" /\ Browser!Web(MapPages)!Init
    \/ part = "Frozen" /\ Browser!Web(FrozenPages)!Init
    \/ part = "Partner" /\ Browser!Web(PartnerPages)!Init
    \/ part \notin {"Slots", "Maps", "Frozen", "Partner"} /\ NoWeb

OnlyWeb == UNCHANGED <<part, repeatVars, sessionVars, serverOrderVars,
                       accountVars, tabVars, serverAccountVars, rightVars,
                       listVars, workerVars, tillVars, shareVars,
                       lifecycleVars, ratioVars, resetVars>>

SlotsStep == part = "Slots" /\ Browser!Web(SlotPages)!Next /\ OnlyWeb
MapsStep == part = "Maps" /\ Browser!Web(MapPages)!Next /\ OnlyWeb
FrozenStep == part = "Frozen" /\ Browser!Web(FrozenPages)!Next /\ OnlyWeb
PartnerStep == part = "Partner" /\ Browser!Web(PartnerPages)!Next /\ OnlyWeb

-----------------------------------------------------------------------------
(* Order sessions and requests. *)

\* Two people order for one store, over two days.
OrderQuota == INSTANCE OrderSessions WITH
    Store <- {s1}, User <- {u1, u2}, Days <- 2, Manual <- {}, DayLength <- 2,
    SnapshotHour <- 0, CutoffHour <- 1, Quota <- 1, MaxRequests <- 2,
    session <- orderSession

\* Sessions an administrator adds, over two days.
OrderDays == INSTANCE OrderSessions WITH
    Store <- {s1}, User <- {u1}, Days <- 2, Manual <- {m1}, DayLength <- 3,
    SnapshotHour <- 1, CutoffHour <- 2, Quota <- 2, MaxRequests <- 0,
    session <- orderSession

\* One day, two sessions.
FairOrders == INSTANCE OrderSessions WITH
    Store <- {s1}, User <- {u1}, Days <- 1, Manual <- {m1}, DayLength <- 3,
    SnapshotHour <- 1, CutoffHour <- 2, Quota <- 2, MaxRequests <- 2,
    session <- orderSession

NoSessions ==
    /\ now = Idle /\ startedAt = Idle /\ orderSession = Idle /\ taken = Idle
    /\ requests = Idle /\ submission = Idle

SessionsInit ==
    \/ part = "OrderQuota" /\ OrderQuota!Init
    \/ part = "OrderDays" /\ OrderDays!Init
    \/ part = "FairOrders" /\ FairOrders!Init
    \/ part \notin {"OrderQuota", "OrderDays", "FairOrders"} /\ NoSessions

OnlySessions == UNCHANGED <<part, repeatVars, webVars, serverOrderVars,
                            accountVars, tabVars, serverAccountVars,
                            rightVars, listVars, workerVars, tillVars,
                            shareVars, lifecycleVars, ratioVars, resetVars>>

OrderQuotaStep == part = "OrderQuota" /\ OrderQuota!Next /\ OnlySessions
OrderDaysStep == part = "OrderDays" /\ OrderDays!Next /\ OnlySessions
FairOrdersStep == part = "FairOrders" /\ FairOrders!Next /\ OnlySessions

-----------------------------------------------------------------------------
(* Orders of the in-memory server. *)

\* MemoryOrders with the constants that c names is Company!Orders(c); so are
\* AccountSessions, TabSessions, MemoryAccounts, TillSync, StoreLifecycle and
\* ConversionHistory below, by the names they have in the module with the
\* proofs about them.
Company == INSTANCE CompanyProofs WITH
    rows <- versions, page <- versionPage

\* One store, two requests, two days.
TwoSlots == [stores |-> {s1}, rows |-> {n1, n2}, requests |-> {q1, q2}, days |-> 2,
             dayLength |-> 3, openings |-> {0, 4}, snapshotHour |-> 1,
             cutoffHour |-> 2, quota |-> 2]

NoServerOrders ==
    /\ orderClock = Idle /\ serverSession = Idle /\ serverRequest = Idle

ServerOrdersInit ==
    \/ part = "ServerSlots" /\ Company!Orders(TwoSlots)!Init
    \/ part \notin {"ServerSlots"} /\ NoServerOrders

OnlyServerOrders == UNCHANGED <<part, repeatVars, webVars, sessionVars,
                                accountVars, tabVars, serverAccountVars,
                                rightVars, listVars, workerVars, tillVars,
                                shareVars, lifecycleVars, ratioVars,
                                resetVars>>

ServerSlotsStep == part = "ServerSlots" /\ Company!Orders(TwoSlots)!Next /\ OnlyServerOrders

-----------------------------------------------------------------------------
(* Accounts and their sessions. *)

\* Two tabs, one account that an administrator changes.
LoginTabs == [admins |-> {m1}, staff |-> {a1}, tabs |-> {t1, t2}, stores |-> {},
              maxFailures |-> 1, maxVersion |-> 1]

\* Two administrators edit each other.
Editors == [admins |-> {m1, m2}, staff |-> {a1}, tabs |-> {}, stores |-> {s1},
            maxFailures |-> 1, maxVersion |-> 2]

NoAccounts ==
    /\ account = Idle /\ tabSession = Idle /\ login = Idle
    /\ accountForm = Idle /\ failureWindow = Idle /\ guesses = Idle
    /\ admitted = Idle

AccountsInit ==
    \/ part = "Logins" /\ Company!Access(LoginTabs)!Init
    \/ part = "AccountEdits" /\ Company!Access(Editors)!Init
    \/ part \notin {"Logins", "AccountEdits"} /\ NoAccounts

OnlyAccounts == UNCHANGED <<part, repeatVars, webVars, sessionVars,
                            serverOrderVars, tabVars, serverAccountVars,
                            rightVars, listVars, workerVars, tillVars,
                            shareVars, lifecycleVars, ratioVars, resetVars>>

LoginsStep == part = "Logins" /\ Company!Access(LoginTabs)!Next /\ OnlyAccounts
AccountEditsStep == part = "AccountEdits" /\ Company!Access(Editors)!Next /\ OnlyAccounts

-----------------------------------------------------------------------------
(* The session cookies of the tabs of a browser. *)

\* More tabs than cookies, that log in again.
ThreeTabs == [tabs |-> {t1, t2, t3}, maxCookies |-> 2, maxLogins |-> 2, maxInFlight |-> 1,
              resolution |-> 1, maxTime |-> 0]

\* More tabs than cookies, in use while others log in.
BusyTabs == [tabs |-> {t1, t2, t3}, maxCookies |-> 2, maxLogins |-> 1, maxInFlight |-> 2,
             resolution |-> 2, maxTime |-> 2]

\* One cookie, and logins that do not know of each other.
OneCookie == [tabs |-> {t1, t2, t3}, maxCookies |-> 1, maxLogins |-> 1, maxInFlight |-> 2,
              resolution |-> 1, maxTime |-> 1]

\* As many tabs as cookies.
TwoTabs == [tabs |-> {t1, t2}, maxCookies |-> 2, maxLogins |-> 2, maxInFlight |-> 2,
            resolution |-> 2, maxTime |-> 1]

NoTabs ==
    /\ jar = Idle /\ logins = Idle /\ ended = Idle /\ evicted = Idle
    /\ tabClock = Idle /\ lastSeen = Idle /\ lastUsed = Idle
    /\ asked = Idle /\ opened = Idle /\ loginAnswer = Idle

TabsInit ==
    \/ part = "ManyTabs" /\ Company!Tabbed(ThreeTabs)!Init
    \/ part = "BusyTabs" /\ Company!Tabbed(BusyTabs)!Init
    \/ part = "OneCookie" /\ Company!Tabbed(OneCookie)!Init
    \/ part = "FewTabs" /\ Company!Tabbed(TwoTabs)!Init
    \/ part \notin {"ManyTabs", "BusyTabs", "OneCookie", "FewTabs"} /\ NoTabs

OnlyTabs == UNCHANGED <<part, repeatVars, webVars, sessionVars,
                        serverOrderVars, accountVars, serverAccountVars,
                        rightVars, listVars, workerVars, tillVars, shareVars,
                        lifecycleVars, ratioVars, resetVars>>

ManyTabsStep == part = "ManyTabs" /\ Company!Tabbed(ThreeTabs)!Next /\ OnlyTabs
BusyTabsStep == part = "BusyTabs" /\ Company!Tabbed(BusyTabs)!Next /\ OnlyTabs
OneCookieStep == part = "OneCookie" /\ Company!Tabbed(OneCookie)!Next /\ OnlyTabs
FewTabsStep == part = "FewTabs" /\ Company!Tabbed(TwoTabs)!Next /\ OnlyTabs

-----------------------------------------------------------------------------
(* Accounts of the in-memory server. *)

\* One name for three accounts, two administrators.
OneName == [ids |-> {a1, a2, m1}, names |-> {n1}, stores |-> {s1}, groups |-> {g1},
            sessions |-> {t1}, maxVersion |-> 1, maxInFlight |-> 2]

\* One account whose stores change.
OneScope == [ids |-> {a1}, names |-> {n1}, stores |-> {s1, s2}, groups |-> {g1},
             sessions |-> {t1}, maxVersion |-> 2, maxInFlight |-> 1]

\* Groups and their stores.
TwoGroups == [ids |-> {}, names |-> {}, stores |-> {s1, s2}, groups |-> {g1, g2},
              sessions |-> {}, maxVersion |-> 3, maxInFlight |-> 1]

NoServerAccounts ==
    /\ serverAccount = Idle /\ pending = Idle /\ session = Idle
    /\ assignment = Idle /\ store = Idle /\ group = Idle

ServerAccountsInit ==
    \/ part = "ServerLogins" /\ Company!Server(OneName)!Init
    \/ part = "ServerScope" /\ Company!Server(OneScope)!Init
    \/ part = "ServerGroups" /\ Company!Server(TwoGroups)!Init
    \/ part \notin {"ServerLogins", "ServerScope",
                    "ServerGroups"} /\ NoServerAccounts

OnlyServerAccounts == UNCHANGED <<part, repeatVars, webVars, sessionVars,
                                  serverOrderVars, accountVars, tabVars,
                                  rightVars, listVars, workerVars, tillVars,
                                  shareVars, lifecycleVars, ratioVars,
                                  resetVars>>

ServerLoginsStep == part = "ServerLogins" /\ Company!Server(OneName)!Next /\ OnlyServerAccounts
ServerScopeStep == part = "ServerScope" /\ Company!Server(OneScope)!Next /\ OnlyServerAccounts
ServerGroupsStep == part = "ServerGroups" /\ Company!Server(TwoGroups)!Next /\ OnlyServerAccounts

-----------------------------------------------------------------------------
(* Who may give which command, now and when it is repeated. *)

\* Every command, asked twice under one key.
Repeats == INSTANCE CommandAuthorityProofs WITH
    Commands <- Named!AllCommands, Requests <- {r1, r2}, MaxChanges <- 1,
    done <- completed

\* Every command, while the rights change again and again.
Changes == INSTANCE CommandAuthorityProofs WITH
    Commands <- Named!AllCommands, Requests <- {r1}, MaxChanges <- 3,
    done <- completed

NoRights ==
    /\ command = Idle /\ who = Idle /\ kind = Idle /\ world = Idle
    /\ stamp = Idle /\ changes = Idle /\ completed = Idle /\ request = Idle

RightsInit ==
    \/ part = "Repeats" /\ Repeats!Init
    \/ part = "Changes" /\ Changes!Init
    \/ part \notin {"Repeats", "Changes"} /\ NoRights

OnlyRights == UNCHANGED <<part, repeatVars, webVars, sessionVars,
                          serverOrderVars, accountVars, tabVars,
                          serverAccountVars, listVars, workerVars, tillVars,
                          shareVars, lifecycleVars, ratioVars, resetVars>>

RepeatsStep == part = "Repeats" /\ Repeats!Next /\ OnlyRights
ChangesStep == part = "Changes" /\ Changes!Next /\ OnlyRights

-----------------------------------------------------------------------------
(* Lists that are read page by page while others write. *)

\* Every list, every reader, three stores.
ListScope == INSTANCE ReadLists WITH
    Lists <- Catalog!AllLists,
    Readers <- {"ADMIN", "HTKD", "STORE", "WHOLESALE"},
    Stores <- ThreeStores, Retail <- Shops, Home <- "home",
    NamedStores <- ThreeStores, Filtering <- FALSE, Placement <- ThreePlaces,
    StartRows <- 1, MaxRows <- 1, PageSize <- 1, FetchSize <- 1,
    InFlight <- 1, MaxChanges <- 1

\* Every list, asked for one status.
ListStatus == INSTANCE ReadLists WITH
    Lists <- Catalog!AllLists, Readers <- {"ADMIN"}, Stores <- {"home"},
    Retail <- {"home"}, Home <- "home", NamedStores <- {}, Filtering <- TRUE,
    Placement <- OnePlace, StartRows <- 1, MaxRows <- 1, PageSize <- 1,
    FetchSize <- 1, InFlight <- 1, MaxChanges <- 1

\* Three pages of two stores.
ListPages == INSTANCE ReadLists WITH
    Lists <- Paged, Readers <- {"ADMIN", "HTKD"}, Stores <- Shops,
    Retail <- Shops, Home <- "home", NamedStores <- {}, Filtering <- FALSE,
    Placement <- TwoPlaces, StartRows <- 2, MaxRows <- 3, PageSize <- 1,
    FetchSize <- 1, InFlight <- 1, MaxChanges <- 1

\* Lists answered from one snapshot.
ListSnapshot == INSTANCE ReadLists WITH
    Lists <- Snapshots, Readers <- {"ADMIN"}, Stores <- {"home"},
    Retail <- {"home"}, Home <- "home", NamedStores <- {}, Filtering <- TRUE,
    Placement <- OnePlace, StartRows <- 1, MaxRows <- 2, PageSize <- 1,
    FetchSize <- 1, InFlight <- 1, MaxChanges <- 1

\* A list merged from two stores.
FairList == INSTANCE ReadLists WITH
    Lists <- {Catalog!StoreOutbounds}, Readers <- {"HTKD"}, Stores <- Shops,
    Retail <- Shops, Home <- "home", NamedStores <- {}, Filtering <- FALSE,
    Placement <- TwoPlaces, StartRows <- 1, MaxRows <- 2, PageSize <- 1,
    FetchSize <- 1, InFlight <- 1, MaxChanges <- 1

NoLists ==
    /\ list = Idle /\ role = Idle /\ named = Idle /\ filter = Idle
    /\ assigned = Idle /\ open = Idle /\ past = Idle /\ pages = Idle

ListsInit ==
    \/ part = "ListScope" /\ ListScope!Init
    \/ part = "ListStatus" /\ ListStatus!Init
    \/ part = "ListPages" /\ ListPages!Init
    \/ part = "ListSnapshot" /\ ListSnapshot!Init
    \/ part = "FairList" /\ FairList!Init
    \/ part \notin {"ListScope", "ListStatus", "ListPages", "ListSnapshot",
                    "FairList"} /\ NoLists

OnlyLists == UNCHANGED <<part, repeatVars, webVars, sessionVars,
                         serverOrderVars, accountVars, tabVars,
                         serverAccountVars, rightVars, workerVars, tillVars,
                         shareVars, lifecycleVars, ratioVars, resetVars>>

ListScopeStep == part = "ListScope" /\ ListScope!Next /\ OnlyLists
ListStatusStep == part = "ListStatus" /\ ListStatus!Next /\ OnlyLists
ListPagesStep == part = "ListPages" /\ ListPages!Next /\ OnlyLists
ListSnapshotStep == part = "ListSnapshot" /\ ListSnapshot!Next /\ OnlyLists
FairListStep == part = "FairList" /\ FairList!Next /\ OnlyLists

-----------------------------------------------------------------------------
(* The loop of the worker and its heartbeat. *)

\* One worker, sessions of two days, faults.
WorkerDays == INSTANCE WorkerLoop WITH
    Replicas <- {w1}, N <- 3, DayOf <- TwoDays, Manual <- {2}, Faulty <- {1},
    SnapshotHour <- 1, CutoffHour <- 2, DayLength <- 3, CatchUp <- 1,
    Limit <- 3, MaxAge <- 1, MaxTime <- 6, MaxFaults <- 2,
    now <- workerClock, taken <- snapshotTaken, done <- allocated,
    row <- heartbeat

\* Two workers.
Workers == INSTANCE WorkerLoop WITH
    Replicas <- {w1, w2}, N <- 2, DayOf <- OneDay, Manual <- {2},
    Faulty <- {1}, SnapshotHour <- 1, CutoffHour <- 2, DayLength <- 3,
    CatchUp <- 0, Limit <- 2, MaxAge <- 1, MaxTime <- 3, MaxFaults <- 0,
    now <- workerClock, taken <- snapshotTaken, done <- allocated,
    row <- heartbeat

\* One worker, faults that end.
FairWorker == INSTANCE WorkerLoop WITH
    Replicas <- {w1}, N <- 2, DayOf <- OneDay, Manual <- {2}, Faulty <- {1},
    SnapshotHour <- 1, CutoffHour <- 2, DayLength <- 3, CatchUp <- 1,
    Limit <- 2, MaxAge <- 1, MaxTime <- 3, MaxFaults <- 2,
    now <- workerClock, taken <- snapshotTaken, done <- allocated,
    row <- heartbeat

NoWorker ==
    /\ workerClock = Idle /\ polled = Idle /\ dbUp = Idle /\ exists = Idle
    /\ snapshotTaken = Idle /\ allocated = Idle /\ cancelled = Idle
    /\ broken = Idle /\ proc = Idle /\ heartbeat = Idle /\ faults = Idle

WorkerInit ==
    \/ part = "WorkerDays" /\ WorkerDays!Init
    \/ part = "Workers" /\ Workers!Init
    \/ part = "FairWorker" /\ FairWorker!Init
    \/ part \notin {"WorkerDays", "Workers", "FairWorker"} /\ NoWorker

OnlyWorker == UNCHANGED <<part, repeatVars, webVars, sessionVars,
                          serverOrderVars, accountVars, tabVars,
                          serverAccountVars, rightVars, listVars, tillVars,
                          shareVars, lifecycleVars, ratioVars, resetVars>>

WorkerDaysStep == part = "WorkerDays" /\ WorkerDays!Next /\ OnlyWorker
WorkersStep == part = "Workers" /\ Workers!Next /\ OnlyWorker
FairWorkerStep == part = "FairWorker" /\ FairWorker!Next /\ OnlyWorker

-----------------------------------------------------------------------------
(* The figures of the till at IDOSI. *)

\* The worker alone, with a restart.
OneRestart == [stores |-> {1}, managers |-> {}, lastMonth |-> 1, interval |-> 1,
               maxStores |-> 1, maxVersion |-> 2, maxCrashes |-> 1]

\* The worker and a manager ask at once.
OneManager == [stores |-> {1}, managers |-> {"m1"}, lastMonth |-> 1, interval |-> 1,
               maxStores |-> 1, maxVersion |-> 1, maxCrashes |-> 0]

\* The worker, a till that changes once, a restart.
OneSale == [stores |-> {1}, managers |-> {}, lastMonth |-> 1, interval |-> 2,
            maxStores |-> 1, maxVersion |-> 1, maxCrashes |-> 1]

NoTill ==
    /\ phase = Idle /\ polledPhase = Idle /\ till = Idle /\ closing = Idle
    /\ charged = Idle /\ age = Idle /\ settled = Idle /\ targets = Idle
    /\ calls = Idle /\ crashes = Idle

TillInit ==
    \/ part = "TillCrashes" /\ Company!Till(OneRestart)!Init
    \/ part = "TillRaces" /\ Company!Till(OneManager)!Init
    \/ part = "FairTill" /\ Company!Till(OneSale)!Init
    \/ part \notin {"TillCrashes", "TillRaces", "FairTill"} /\ NoTill

OnlyTill == UNCHANGED <<part, repeatVars, webVars, sessionVars,
                        serverOrderVars, accountVars, tabVars,
                        serverAccountVars, rightVars, listVars, workerVars,
                        shareVars, lifecycleVars, ratioVars, resetVars>>

TillCrashesStep == part = "TillCrashes" /\ Company!Till(OneRestart)!Next /\ OnlyTill
TillRacesStep == part = "TillRaces" /\ Company!Till(OneManager)!Next /\ OnlyTill
FairTillStep == part = "FairTill" /\ Company!Till(OneSale)!Next /\ OnlyTill

-----------------------------------------------------------------------------
(* The rounds in which goods are shared. *)

\* Three stores, two tiers, one unit each.
Tiers == INSTANCE RoundRobinProofs WITH
    StoreList <- ThreeInARow, Closable <- {}, LastTier <- 2,
    DemandsPerStore <- 1, MaxDemand <- 1, MaxAvailable <- 3,
    requested <- demanded, available <- shareable

\* Three stores of one tier that want several units.
Rounds == INSTANCE RoundRobinProofs WITH
    StoreList <- ThreeInARow, Closable <- {}, LastTier <- 1,
    DemandsPerStore <- 1, MaxDemand <- 2, MaxAvailable <- 5,
    requested <- demanded, available <- shareable

\* Two stores, two tiers, several units.
TwoTiers == INSTANCE RoundRobinProofs WITH
    StoreList <- TwoStores, Closable <- {}, LastTier <- 2,
    DemandsPerStore <- 1, MaxDemand <- 2, MaxAvailable <- 3,
    requested <- demanded, available <- shareable

\* Two demands of each of two stores.
Shares == INSTANCE RoundRobinProofs WITH
    StoreList <- TwoStores, Closable <- {s1, s2}, LastTier <- 1,
    DemandsPerStore <- 2, MaxDemand <- 2, MaxAvailable <- 5,
    requested <- demanded, available <- shareable

\* One demand of each of two stores.
FairShares == INSTANCE RoundRobin WITH
    StoreList <- TwoStores, Closable <- {s1, s2}, LastTier <- 1,
    DemandsPerStore <- 1, MaxDemand <- 2, MaxAvailable <- 3,
    requested <- demanded, available <- shareable

NoSharing ==
    /\ active = Idle /\ cursor = Idle /\ pc = Idle /\ demanded = Idle
    /\ left = Idle /\ snapshot = Idle /\ shareable = Idle /\ ring = Idle
    /\ at = Idle /\ tier = Idle /\ roundStart = Idle /\ offset = Idle
    /\ grants = Idle /\ madeAnyGrant = Idle /\ passedOver = Idle

SharingInit ==
    \/ part = "Tiers" /\ Tiers!Init
    \/ part = "Rounds" /\ Rounds!Init
    \/ part = "TwoTiers" /\ TwoTiers!Init
    \/ part = "Shares" /\ Shares!Init
    \/ part = "FairShares" /\ FairShares!Init
    \/ part \notin {"Tiers", "Rounds", "TwoTiers", "Shares",
                    "FairShares"} /\ NoSharing

OnlySharing == UNCHANGED <<part, repeatVars, webVars, sessionVars,
                           serverOrderVars, accountVars, tabVars,
                           serverAccountVars, rightVars, listVars,
                           workerVars, tillVars, lifecycleVars, ratioVars,
                           resetVars>>

TiersStep == part = "Tiers" /\ Tiers!Next /\ OnlySharing
RoundsStep == part = "Rounds" /\ Rounds!Next /\ OnlySharing
TwoTiersStep == part = "TwoTiers" /\ TwoTiers!Next /\ OnlySharing
SharesStep == part = "Shares" /\ Shares!Next /\ OnlySharing
FairSharesStep == part = "FairShares" /\ FairShares!Next /\ OnlySharing

-----------------------------------------------------------------------------
(* Groups, stores and the accounts of stores. *)

\* StoreLifecycle with the constants that c names is Company!Life(c).

\* Two stores with goods under way.
Closing == [groups |-> {g1}, stores |-> {s1, s2}, accounts |-> {},
            admins |-> {m1}, items |-> {i1}, maxVersion |-> 2]

\* Two groups.
Grouping == [groups |-> {g1, g2}, stores |-> {s1, s2}, accounts |-> {},
             admins |-> {m1}, items |-> {}, maxVersion |-> 2]

\* Two accounts for two stores.
Staffing == [groups |-> {g1}, stores |-> {s1, s2}, accounts |-> {a1, a2},
             admins |-> {m1}, items |-> {}, maxVersion |-> 2]

NoLifecycle ==
    /\ storeGroup = Idle /\ storeRow = Idle /\ storeAccount = Idle
    /\ creating = Idle /\ storeForm = Idle /\ work = Idle /\ moving = Idle

LifecycleInit ==
    \/ part = "StoreClosing" /\ Company!Life(Closing)!Init
    \/ part = "StoreGroups" /\ Company!Life(Grouping)!Init
    \/ part = "StoreAccounts" /\ Company!Life(Staffing)!Init
    \/ part \notin {"StoreClosing", "StoreGroups",
                    "StoreAccounts"} /\ NoLifecycle

OnlyLifecycle == UNCHANGED <<part, repeatVars, webVars, sessionVars,
                              serverOrderVars, accountVars, tabVars,
                              serverAccountVars, rightVars, listVars,
                              workerVars, tillVars, shareVars, ratioVars,
                              resetVars>>

StoreClosingStep ==
    part = "StoreClosing" /\ Company!Life(Closing)!Next /\ OnlyLifecycle
StoreGroupsStep ==
    part = "StoreGroups" /\ Company!Life(Grouping)!Next /\ OnlyLifecycle
StoreAccountsStep ==
    part = "StoreAccounts" /\ Company!Life(Staffing)!Next /\ OnlyLifecycle

-----------------------------------------------------------------------------
(* The conversion ratios of a product. *)

\* Two administrators with a page each.
TwoPages == [admins |-> {m1, m2}, ratios |-> {r1}, maxDay |-> 4, maxVersions |-> 3]

\* Two ratios to choose from.
TwoRatios == [admins |-> {m1}, ratios |-> {r1, r2}, maxDay |-> 4, maxVersions |-> 3]

NoRatios ==
    /\ versions = Idle /\ today = Idle /\ versionPage = Idle

RatiosInit ==
    \/ part = "RatioPages" /\ Company!Ratio(TwoPages)!Init
    \/ part = "RatioChoices" /\ Company!Ratio(TwoRatios)!Init
    \/ part \notin {"RatioPages", "RatioChoices"} /\ NoRatios

OnlyRatios == UNCHANGED <<part, repeatVars, webVars, sessionVars,
                           serverOrderVars, accountVars, tabVars,
                           serverAccountVars, rightVars, listVars,
                           workerVars, tillVars, shareVars, lifecycleVars,
                           resetVars>>

RatioPagesStep == part = "RatioPages" /\ Company!Ratio(TwoPages)!Next /\ OnlyRatios
RatioChoicesStep == part = "RatioChoices" /\ Company!Ratio(TwoRatios)!Next /\ OnlyRatios

-----------------------------------------------------------------------------
(* The reset of test data. *)

\* Three operations, a tab and writes that arrive late.
Resets == INSTANCE ResetProtocolProofs WITH
    Ops <- {1, 2, 3}, Cutoff <- InOrder({1, 2, 3}), Retain <- {},
    Tabs <- {t1}, Keys <- {k1, k2}, KeptKeys <- {}, ByHand <- TRUE,
    rows <- businessRows, phase <- resetPhase, tabs <- resetTabs,
    sent <- resetSent

\* Operations that keep a recovery copy, and a kept key.
Retained == INSTANCE ResetProtocolProofs WITH
    Ops <- {1, 2}, Cutoff <- InOrder({1, 2}), Retain <- {1, 2},
    Tabs <- {t1, t2}, Keys <- {k1, k2}, KeptKeys <- {k1}, ByHand <- FALSE,
    rows <- businessRows, phase <- resetPhase, tabs <- resetTabs,
    sent <- resetSent

NoReset ==
    /\ businessRows = Idle /\ idem = Idle /\ replay = Idle
    /\ resetPhase = Idle /\ manifest = Idle /\ api = Idle /\ entered = Idle
    /\ copies = Idle /\ proof = Idle /\ resetTabs = Idle
    /\ resetSent = Idle /\ composed = Idle /\ runs = Idle
    /\ applied = Idle /\ purged = Idle

ResetInit ==
    \/ part = "Resets" /\ Resets!Init
    \/ part = "Retained" /\ Retained!Init
    \/ part \notin {"Resets", "Retained"} /\ NoReset

OnlyReset == UNCHANGED <<part, repeatVars, webVars, sessionVars,
                          serverOrderVars, accountVars, tabVars,
                          serverAccountVars, rightVars, listVars,
                          workerVars, tillVars, shareVars, lifecycleVars,
                          ratioVars>>

ResetsStep == part = "Resets" /\ Resets!Next /\ OnlyReset
RetainedStep == part = "Retained" /\ Retained!Next /\ OnlyReset

-----------------------------------------------------------------------------

ASSUME CommandsAssumption ==
    /\ Browser!Once(OneCommand)!CommandAssumption
    /\ Browser!Once(AgedCommand)!CommandAssumption
    /\ Browser!Once(PanelCommand)!CommandAssumption
    /\ FairCommand!CommandAssumption
    /\ OrderQuota!SessionAssumption
    /\ OrderDays!SessionAssumption
    /\ FairOrders!SessionAssumption
    /\ Company!Orders(TwoSlots)!MemoryOrderBounds
    /\ Company!Access(LoginTabs)!AccountSessionsAssumption
    /\ Company!Access(Editors)!AccountSessionsAssumption
    /\ Company!Tabbed(ThreeTabs)!TabSessionsAssumption
    /\ Company!Tabbed(BusyTabs)!TabSessionsAssumption
    /\ Company!Tabbed(OneCookie)!TabSessionsAssumption
    /\ Company!Tabbed(TwoTabs)!TabSessionsAssumption
    /\ Company!Server(OneName)!MemoryAccountBounds
    /\ Company!Server(OneScope)!MemoryAccountBounds
    /\ Company!Server(TwoGroups)!MemoryAccountBounds
    /\ Repeats!AuthorityAssumption
    /\ Changes!AuthorityAssumption
    /\ WorkerDays!LoopAssumption
    /\ Workers!LoopAssumption
    /\ FairWorker!LoopAssumption
    /\ Company!Till(OneRestart)!TillSyncAssumption
    /\ Company!Till(OneManager)!TillSyncAssumption
    /\ Company!Till(OneSale)!TillSyncAssumption
    /\ Tiers!RoundRobinAssumption
    /\ Rounds!RoundRobinAssumption
    /\ TwoTiers!RoundRobinAssumption
    /\ Shares!RoundRobinAssumption
    /\ FairShares!RoundRobinAssumption
    /\ Company!Life(Closing)!StoreLifecycleAssumption
    /\ Company!Life(Grouping)!StoreLifecycleAssumption
    /\ Company!Life(Staffing)!StoreLifecycleAssumption
    /\ Company!Ratio(TwoPages)!HistoryAssumption
    /\ Company!Ratio(TwoRatios)!HistoryAssumption
    /\ Resets!ResetProtocolAssumption
    /\ Retained!ResetProtocolAssumption

Init ==
    /\ part \in Parts
    /\ RepeatedInit
    /\ WebInit
    /\ SessionsInit
    /\ ServerOrdersInit
    /\ AccountsInit
    /\ TabsInit
    /\ ServerAccountsInit
    /\ RightsInit
    /\ ListsInit
    /\ WorkerInit
    /\ TillInit
    /\ SharingInit
    /\ LifecycleInit
    /\ RatiosInit
    /\ ResetInit

Next ==
    \/ OnceStep
    \/ AgedStep
    \/ PanelsStep
    \/ FairCommandStep
    \/ SlotsStep
    \/ MapsStep
    \/ FrozenStep
    \/ PartnerStep
    \/ OrderQuotaStep
    \/ OrderDaysStep
    \/ FairOrdersStep
    \/ ServerSlotsStep
    \/ LoginsStep
    \/ AccountEditsStep
    \/ ManyTabsStep
    \/ BusyTabsStep
    \/ OneCookieStep
    \/ FewTabsStep
    \/ ServerLoginsStep
    \/ ServerScopeStep
    \/ ServerGroupsStep
    \/ RepeatsStep
    \/ ChangesStep
    \/ ListScopeStep
    \/ ListStatusStep
    \/ ListPagesStep
    \/ ListSnapshotStep
    \/ FairListStep
    \/ WorkerDaysStep
    \/ WorkersStep
    \/ FairWorkerStep
    \/ TillCrashesStep
    \/ TillRacesStep
    \/ FairTillStep
    \/ TiersStep
    \/ RoundsStep
    \/ TwoTiersStep
    \/ SharesStep
    \/ FairSharesStep
    \/ StoreClosingStep
    \/ StoreGroupsStep
    \/ StoreAccountsStep
    \/ RatioPagesStep
    \/ RatioChoicesStep
    \/ ResetsStep
    \/ RetainedStep

Spec == Init /\ [][Next]_vars

(* A running server serves what reached it, a run that began is computed, pages *)
(* are answered, transactions end, the worker polls, outages end and what was   *)
(* stopped is started again.                                                    *)
WeaklyFair ==
    /\ \A r \in 1 .. 2 : WF_repeatVars(part = "FairCommand" /\ FairCommand!Serve(r))
    /\ WF_shareVars(part = "FairShares" /\ FairShares!Compute)
    /\ \A p \in 1 .. 2 : WF_listVars(part = "FairList" /\ FairList!PageStep(p))
    /\ WF_sessionVars(part = "FairOrders" /\ FairOrders!Tick)
    /\ WF_sessionVars(part = "FairOrders" /\ FairOrders!StartTick /\ startedAt # now)
    /\ WF_sessionVars(
          part = "FairOrders"
          /\ (FairOrders!CommitSubmission(u1) \/ FairOrders!RetrySubmission(u1)))
    /\ WF_workerVars(part = "FairWorker" /\ FairWorker!Restore)
    /\ WF_workerVars(part = "FairWorker" /\ FairWorker!StartTick(w1))
    /\ WF_workerVars(part = "FairWorker" /\ FairWorker!TickStep(w1))
    /\ WF_workerVars(part = "FairWorker" /\ FairWorker!Exit(w1))
    /\ WF_workerVars(part = "FairWorker" /\ FairWorker!Start(w1))
    /\ WF_tillVars(part = "FairTill" /\ Company!Till(OneSale)!Tick)
    /\ WF_tillVars(part = "FairTill" /\ Company!Till(OneSale)!AskNext)
    /\ WF_tillVars(part = "FairTill"
                   /\ (\/ Company!Till(OneSale)!Answer("worker")
                       \/ Company!Till(OneSale)!Refuse("worker")))
    /\ WF_tillVars(part = "FairTill"
                   /\ (\/ Company!Till(OneSale)!RecordSuccess("worker")
                       \/ Company!Till(OneSale)!RecordFails("worker")))
    /\ WF_tillVars(part = "FairTill"
                   /\ (\/ Company!Till(OneSale)!RecordFailure("worker")
                       \/ Company!Till(OneSale)!AbandonTick))

\* The steps that succeed again and again when they are tried again and again:
\* the calls of the worker to the till, and its jobs for a session.
Synced(m) == part = "FairTill" /\ Company!Till(OneSale)!WorkerOn(1, m) /\ OnlyTill
Answered(m) == Synced(m) /\ Company!Till(OneSale)!Answer("worker")
Recorded(m) == Synced(m) /\ Company!Till(OneSale)!RecordSuccess("worker")
Refused(m) == Synced(m) /\ Company!Till(OneSale)!RecordFailure("worker")
Frozen1(s) == part = "FairOrders" /\ FairOrders!TakeSnapshot(s) /\ OnlySessions
Allocated(s) == part = "FairOrders" /\ FairOrders!Complete(s) /\ OnlySessions

\* part never changes, so fairness of either is fairness of the one that is run.
StronglyFair ==
    /\ SF_vars(Answered(0) \/ Frozen1(1)) /\ SF_vars(Answered(1) \/ Frozen1(m1))
    /\ SF_vars(Recorded(0) \/ Allocated(1)) /\ SF_vars(Recorded(1) \/ Allocated(m1))
    /\ SF_vars(Refused(0)) /\ SF_vars(Refused(1))

FairSpec == Spec /\ WeaklyFair /\ StronglyFair

-----------------------------------------------------------------------------

\* A command takes effect once however often it is repeated, and whoever is
\* told of a success is told of the own command (IdempotentCommands).
CommandsOnce ==
    /\ part = "Once" => Browser!Once(OneCommand)!CommandsOnce
    /\ part = "Aged" => Browser!Once(AgedCommand)!CommandsOnce
    /\ part = "Panels" => Browser!Once(PanelCommand)!CommandsOnce

\* What a user wants once is done once, a key names one request and a success
\* that is shown is one (WebCommands).
FormsSendOnce ==
    /\ part = "Slots" =>
          /\ Browser!Web(SlotPages)!TypeOK
          /\ Browser!Web(SlotPages)!DoneOnce
          /\ Browser!Web(SlotPages)!KeyNamesOneRequest
    /\ part = "Maps" =>
          /\ Browser!Web(MapPages)!DoneOnce
          /\ Browser!Web(MapPages)!KeyNamesOneRequest
    /\ part = "Frozen" =>
          /\ Browser!Web(FrozenPages)!DoneOnce
          /\ Browser!Web(FrozenPages)!SuccessIsReal
    /\ part = "Partner" =>
          /\ Browser!Web(PartnerPages)!TypeOK

\* A store has no more requests than its quota, each waits in a session that
\* will be allocated, and the sessions of a day are the ones the calendar asks
\* for (OrderSessions, MemoryOrders).
OrdersKept ==
    /\ part = "OrderQuota" =>
          /\ OrderQuota!TypeOK
          /\ OrderQuota!QuotaHolds
          /\ OrderQuota!NoStrandedRequest
          /\ OrderQuota!SnapshotIsSettled
    /\ part = "OrderDays" =>
          /\ OrderDays!TypeOK
          /\ OrderDays!ManualSessionIsReachable
    /\ part = "ServerSlots" =>
          /\ Company!Orders(TwoSlots)!TypeOK
          /\ Company!Orders(TwoSlots)!NumbersDiffer
          /\ Company!Orders(TwoSlots)!OneDefaultPerDate
          /\ Company!Orders(TwoSlots)!WaitsInLiveSession

\* Passwords are not guessed beyond the limit, tabs within the limit of cookies
\* are not disturbed, a name has no more active accounts than there were
\* creations at once, and accounts keep the stores they were given
\* (AccountSessions, TabSessions, MemoryAccounts).
LoginsHold ==
    /\ part = "Logins" =>
          /\ Company!Access(LoginTabs)!TypeOK
          /\ Company!Access(LoginTabs)!GuessesBounded
    /\ part = "ManyTabs" =>
          /\ Company!Tabbed(ThreeTabs)!TypeOK
          /\ Company!Tabbed(ThreeTabs)!JarBounded
    /\ part = "BusyTabs" =>
          /\ Company!Tabbed(BusyTabs)!TypeOK
          /\ Company!Tabbed(BusyTabs)!JarBounded
    /\ part = "OneCookie" =>
          /\ Company!Tabbed(OneCookie)!TypeOK
          /\ Company!Tabbed(OneCookie)!JarBounded
    /\ part = "FewTabs" =>
          /\ Company!Tabbed(TwoTabs)!TypeOK
          /\ Company!Tabbed(TwoTabs)!FewTabsUndisturbed
    /\ part = "ServerLogins" =>
          /\ Company!Server(OneName)!TypeOK
          /\ Company!Server(OneName)!AsManyAsOverlap
    /\ part = "ServerScope" =>
          /\ Company!Server(OneScope)!ScopeIsAssignments
    /\ part = "ServerGroups" =>
          /\ Company!Server(TwoGroups)!OpenStoreInOpenGroup

\* A command acts within the rights its user had when it began, leaves closed
\* stores alone and is answered again only to those who may still see it
\* (CommandAuthority).
RightsHold ==
    /\ part = "Repeats" => Repeats!RightsHold
    /\ part = "Changes" => Changes!RightsHold

\* A list shows the rows its reader may see, under the status asked for, each
\* once when nothing changes meanwhile (ReadLists).
ListsTruthful ==
    /\ part = "ListScope" =>
          /\ ListScope!TypeOK
          /\ ListScope!ShownInScope
          /\ ListScope!NamedOnly
    /\ part = "ListStatus" =>
          /\ ListStatus!StatusAsAsked
    /\ part = "ListPages" =>
          /\ ListPages!TypeOK
          /\ ListPages!QuietIsWhole
    /\ part = "ListSnapshot" =>
          /\ ListSnapshot!SnapshotAnswer

\* Sessions without faults of their own are allocated on time, and the
\* heartbeat tells what is broken and nothing else (WorkerLoop).
WorkerOnTime ==
    /\ part = "WorkerDays" =>
          /\ WorkerDays!TypeOK
          /\ WorkerDays!SoundRunsOnTime
          /\ WorkerDays!HealthyIsTrue
          /\ WorkerDays!BrokenIsSeen
          /\ WorkerDays!PollingIsReady
    /\ part = "Workers" =>
          /\ Workers!TypeOK
          /\ Workers!SoundRunsOnTime
          /\ Workers!HealthyIsTrue

\* The rounds share the goods fairly within each tier and higher tiers first,
\* each grants something, and of the demands of a store the earlier one is
\* served first (RoundRobin, FairShare).
SharesFair ==
    /\ part = "Tiers" => Tiers!SharesFair
    /\ part = "Rounds" => Rounds!SharesFair
    /\ part = "TwoTiers" => TwoTiers!SharesFair
    /\ part = "Shares" => Shares!SharesFair

\* A store is not passed over for ever, whichever store the runs begin with and
\* whatever the lower tiers do to the cursor (RoundRobin).
StoresServed ==
    /\ part = "Tiers" => Tiers!StoresServed
    /\ part = "Rounds" => Rounds!StoresServed
    /\ part = "TwoTiers" => TwoTiers!StoresServed

\* A closed month has all the figures of the till (TillSync).
TillFaithful ==
    /\ part = "TillCrashes" =>
          /\ Company!Till(OneRestart)!TypeOK
          /\ Company!Till(OneRestart)!ClosedMonthComplete
    /\ part = "TillRaces" =>
          /\ Company!Till(OneManager)!TypeOK
          /\ Company!Till(OneManager)!ClosedMonthComplete

\* An open store is in an active group, has one account at most and, when it
\* closes, leaves nothing of the work that is counted (StoreLifecycle).
StoresConsistent ==
    /\ part = "StoreClosing" =>
          /\ Company!Life(Closing)!TypeOK
          /\ Company!Life(Closing)!NoCountedWorkLeft
    /\ part = "StoreGroups" =>
          /\ Company!Life(Grouping)!TypeOK
          /\ Company!Life(Grouping)!OpenStoreActiveGroup
    /\ part = "StoreAccounts" =>
          /\ Company!Life(Staffing)!TypeOK
          /\ Company!Life(Staffing)!OneAccountPerStore

\* A product has one ratio a day, and its history is a line without branches
\* (ConversionHistory).
RatiosKept ==
    /\ part = "RatioPages" => Company!Ratio(TwoPages)!RatiosKept
    /\ part = "RatioChoices" => Company!Ratio(TwoRatios)!RatiosKept

\* A form of an old epoch is never applied, a key runs once, the services run
\* in the epoch that was applied last, and what was purged stays empty
\* (ResetProtocol).
ResetClean ==
    /\ part = "Resets" => Resets!ResetKept
    /\ part = "Retained" =>
          /\ Retained!TypeOK
          /\ Retained!RecoveryCopyKept

\* Stores and ratios change only as they were seen, goods left at a closed store
\* stay as they are, the history of a ratio stays and only reviewed rows are
\* purged; the versions with their triggers do
\* what the plain catalogue of the in-memory server does (StoreLifecycle,
\* ConversionHistory, ConversionCatalog, ResetProtocol).
RecordStands ==
    /\ (part = "RatioPages" => Company!Ratio(TwoPages)!CatalogInit)
    /\ (part = "RatioChoices" => Company!Ratio(TwoRatios)!CatalogInit)
    /\ [][/\ part = "StoreClosing" => Company!Life(Closing)!StrandedStay
          /\ part = "StoreGroups" => Company!Life(Grouping)!StoreEditsSeen
          /\ part = "RatioPages" =>
                /\ Company!Ratio(TwoPages)!HistoryStays
                /\ Company!Ratio(TwoPages)!CatalogStep
          /\ part = "RatioChoices" =>
                /\ Company!Ratio(TwoRatios)!HistoryStays
                /\ Company!Ratio(TwoRatios)!CatalogStep
          /\ part = "Resets" => Resets!OnlyReviewedIsPurged]_vars

\* The form of goods a partner brings, sent again after its answer was lost, is
\* done once for each wish of the user (WebCommands). Violated: the
\* content holds the time it was put together, so a slip sent again never equals
\* the one before it and is given a key of its own.
PartnerOnce ==
    /\ part = "Partner" =>
          /\ Browser!Web(PartnerPages)!DoneOnce

\* resolveStoreOrder asserts that the cursor a run starts from occurs in the
\* order of the stores (RoundRobin). Violated: the store the last run left it
\* at may have been closed since.
CursorOnRing ==
    /\ part = "Shares" =>
          /\ Shares!CursorOccursInStoreOrder

\* Requests are admitted with current rights only, a dead session stays dead,
\* sessions revoked for the limit of cookies were the least used as far as the
\* times stored can tell, an edit changes what was seen, figures of the till
\* never go back and reach the stock, and the in-memory server releases the
\* slots of a store as RequestSlots promises.
SettledStands ==
    /\ (part = "ServerSlots" => Company!Orders(TwoSlots)!PromiseInit)
    /\ [][/\ part = "Logins" =>
                /\ Company!Access(LoginTabs)!AdmittedIsCurrent
                /\ Company!Access(LoginTabs)!DeadStaysDead
          /\ part = "AccountEdits" => Company!Access(Editors)!EditsWhatWasSeen
          /\ part = "BusyTabs" => Company!Tabbed(BusyTabs)!LeastUsedRevoked
          /\ part = "ServerScope" => Company!Server(OneScope)!ScopeOfASessionIsFixed
          /\ part = "ServerSlots" => Company!Orders(TwoSlots)!PromiseStep
          /\ part = "TillCrashes" =>
                /\ Company!Till(OneRestart)!FiguresNeverGoBack
                /\ Company!Till(OneRestart)!AnswerReachesStock
          /\ part = "TillRaces" =>
                /\ Company!Till(OneManager)!FiguresNeverGoBack
                /\ Company!Till(OneManager)!AnswerReachesStock]_vars

Waits(s, n) == \E r \in requests : r.session = s /\ r.number = n /\ r.status = "submitted"

\* What is under way in each of these, one obligation at a time, and what ends
\* it: a command that reached the server and its answer, a run of the rounds, a
\* list that is read, a request for goods and the decision about it, a sale and
\* the stock it is taken from, a month that ended and its settlement.
Pending(i) ==
    \/ part = "FairCommand" /\ i <= 2 /\ attempt[i].phase = "waiting"
    \/ part = "FairShares" /\ i = 1 /\ pc # "idle"
    \/ part = "FairList" /\ i = 1 /\ ~FairList!Finished
    \/ part = "FairOrders" /\ Waits(IF i <= 2 THEN 1 ELSE m1, (i % 2) + 1)
    \/ part = "FairTill" /\ i <= 2 /\ Company!Till(OneSale)!Month = i - 1 /\ till[1][i - 1] >= 1
    \/ part = "FairTill" /\ i > 2
          /\ Company!Till(OneSale)!Month - 1 = i - 3 /\ ~Company!Till(OneSale)!Grace

Ended(i) ==
    \/ part = "FairCommand" /\ i <= 2 /\ attempt[i].phase \in {"answered", "gone"}
    \/ part = "FairShares" /\ pc = "idle"
    \/ part = "FairList" /\ FairList!Finished
    \/ part = "FairOrders" /\ ~Waits(IF i <= 2 THEN 1 ELSE m1, (i % 2) + 1)
    \/ part = "FairTill" /\ i <= 2
          /\ (Company!Till(OneSale)!Month # i - 1 \/ charged[1][i - 1] >= 1)
    \/ part = "FairTill" /\ i > 2
          /\ (\/ Company!Till(OneSale)!Month - 1 > i - 3
              \/ settled[1][i - 3] >= Company!Till(OneSale)!SettledAfter(i - 3))

(* What is under way comes to its end, and the worker's status is healthy      *)
(* again, and stays so, once its faults are over.                              *)
WorkEnds ==
    /\ \A i \in 1 .. 4 : Pending(i) ~> Ended(i)
    /\ <>[](part = "FairWorker" => \A s \in 1 .. 2 : broken[s] = "none")
       => <>[](part = "FairWorker" => FairWorker!Healthy)
=============================================================================
