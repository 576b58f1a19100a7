-------------------------- MODULE MCCommandsProofs --------------------------
(***************************************************************************)
(* The suite of MCCommands keeps what its components keep.  A behaviour of *)
(* the suite is about one part, which never changes, and on the variables  *)
(* of that part it is a behaviour of that part; so a theorem of a module,  *)
(* proved for every value of its constants, holds of each instance of the  *)
(* suite, and the theorems here state the very properties its runs check.  *)
(*                                                                         *)
(* Most modules are instances with the constants of a record c, and their  *)
(* theorems hold for every record: a part names its own.                   *)
(***************************************************************************)
EXTENDS MCCommands, TLAPS

-----------------------------------------------------------------------------
(* A step of the suite is a step of the part it is about.                  *)

LEMMA NextIsOfPart ==
    ASSUME Next
    PROVE  /\ part' = part
           /\ part = "Once" => OnceStep
           /\ part = "Aged" => AgedStep
           /\ part = "Panels" => PanelsStep
           /\ part = "Slots" => SlotsStep
           /\ part = "Maps" => MapsStep
           /\ part = "Frozen" => FrozenStep
           /\ part = "Partner" => PartnerStep
           /\ part = "ServerSlots" => ServerSlotsStep
           /\ part = "Logins" => LoginsStep
           /\ part = "AccountEdits" => AccountEditsStep
           /\ part = "ManyTabs" => ManyTabsStep
           /\ part = "BusyTabs" => BusyTabsStep
           /\ part = "OneCookie" => OneCookieStep
           /\ part = "FewTabs" => FewTabsStep
           /\ part = "ServerLogins" => ServerLoginsStep
           /\ part = "ServerScope" => ServerScopeStep
           /\ part = "ServerGroups" => ServerGroupsStep
           /\ part = "Repeats" => RepeatsStep
           /\ part = "Changes" => ChangesStep
           /\ part = "TillCrashes" => TillCrashesStep
           /\ part = "TillRaces" => TillRacesStep
           /\ part = "Tiers" => TiersStep
           /\ part = "Rounds" => RoundsStep
           /\ part = "TwoTiers" => TwoTiersStep
           /\ part = "Shares" => SharesStep
           /\ part = "StoreClosing" => StoreClosingStep
           /\ part = "StoreGroups" => StoreGroupsStep
           /\ part = "StoreAccounts" => StoreAccountsStep
           /\ part = "RatioPages" => RatioPagesStep
           /\ part = "RatioChoices" => RatioChoicesStep
           /\ part = "Resets" => ResetsStep
           /\ part = "Retained" => RetainedStep
BY DEF Next,
   OnceStep, AgedStep, PanelsStep, FairCommandStep, SlotsStep, MapsStep,
   FrozenStep, PartnerStep, OrderQuotaStep, OrderDaysStep, FairOrdersStep,
   ServerSlotsStep, LoginsStep, AccountEditsStep, ManyTabsStep, BusyTabsStep,
   OneCookieStep, FewTabsStep, ServerLoginsStep, ServerScopeStep, ServerGroupsStep, RepeatsStep,
   ChangesStep, ListScopeStep, ListStatusStep, ListPagesStep, ListSnapshotStep,
   FairListStep, WorkerDaysStep, WorkersStep, FairWorkerStep, TillCrashesStep,
   TillRacesStep, FairTillStep, TiersStep, RoundsStep, TwoTiersStep,
   SharesStep, FairSharesStep, StoreClosingStep, StoreGroupsStep,
   StoreAccountsStep, RatioPagesStep, RatioChoicesStep, ResetsStep,
   RetainedStep, OnlyRepeated, OnlyWeb, OnlySessions, OnlyServerOrders,
   OnlyAccounts, OnlyTabs, OnlyServerAccounts, OnlyRights, OnlyLists,
   OnlyWorker, OnlyTill, OnlySharing, OnlyLifecycle, OnlyRatios, OnlyReset

LEMMA StepIsOfPart ==
    ASSUME [Next]_vars
    PROVE  /\ part' = part
           /\ part = "Once" => OnceStep \/ UNCHANGED repeatVars
           /\ part = "Aged" => AgedStep \/ UNCHANGED repeatVars
           /\ part = "Panels" => PanelsStep \/ UNCHANGED repeatVars
           /\ part = "Slots" => SlotsStep \/ UNCHANGED webVars
           /\ part = "Maps" => MapsStep \/ UNCHANGED webVars
           /\ part = "Frozen" => FrozenStep \/ UNCHANGED webVars
           /\ part = "Partner" => PartnerStep \/ UNCHANGED webVars
           /\ part = "ServerSlots" => ServerSlotsStep \/ UNCHANGED serverOrderVars
           /\ part = "Logins" => LoginsStep \/ UNCHANGED accountVars
           /\ part = "AccountEdits" => AccountEditsStep \/ UNCHANGED accountVars
           /\ part = "ManyTabs" => ManyTabsStep \/ UNCHANGED tabVars
           /\ part = "BusyTabs" => BusyTabsStep \/ UNCHANGED tabVars
           /\ part = "OneCookie" => OneCookieStep \/ UNCHANGED tabVars
           /\ part = "FewTabs" => FewTabsStep \/ UNCHANGED tabVars
           /\ part = "ServerLogins" => ServerLoginsStep \/ UNCHANGED serverAccountVars
           /\ part = "ServerScope" => ServerScopeStep \/ UNCHANGED serverAccountVars
           /\ part = "ServerGroups" => ServerGroupsStep \/ UNCHANGED serverAccountVars
           /\ part = "Repeats" => RepeatsStep \/ UNCHANGED rightVars
           /\ part = "Changes" => ChangesStep \/ UNCHANGED rightVars
           /\ part = "TillCrashes" => TillCrashesStep \/ UNCHANGED tillVars
           /\ part = "TillRaces" => TillRacesStep \/ UNCHANGED tillVars
           /\ part = "Tiers" => TiersStep \/ UNCHANGED shareVars
           /\ part = "Rounds" => RoundsStep \/ UNCHANGED shareVars
           /\ part = "TwoTiers" => TwoTiersStep \/ UNCHANGED shareVars
           /\ part = "Shares" => SharesStep \/ UNCHANGED shareVars
           /\ part = "StoreClosing" => StoreClosingStep \/ UNCHANGED lifecycleVars
           /\ part = "StoreGroups" => StoreGroupsStep \/ UNCHANGED lifecycleVars
           /\ part = "StoreAccounts" => StoreAccountsStep \/ UNCHANGED lifecycleVars
           /\ part = "RatioPages" => RatioPagesStep \/ UNCHANGED ratioVars
           /\ part = "RatioChoices" => RatioChoicesStep \/ UNCHANGED ratioVars
           /\ part = "Resets" => ResetsStep \/ UNCHANGED resetVars
           /\ part = "Retained" => RetainedStep \/ UNCHANGED resetVars
<1>1. CASE Next
  BY <1>1, NextIsOfPart
<1>2. CASE UNCHANGED vars
  BY <1>2 DEF vars
<1> QED BY <1>1, <1>2

\* While the variables of its part rest, the suite rests.
LEMMA PartsRest ==
    ASSUME [Next]_vars
    PROVE  /\ part = "ServerSlots" /\ UNCHANGED serverOrderVars => UNCHANGED vars
           /\ part \in {"Logins", "AccountEdits"} /\ UNCHANGED accountVars => UNCHANGED vars
           /\ part = "BusyTabs" /\ UNCHANGED tabVars => UNCHANGED vars
           /\ part = "StoreClosing" /\ UNCHANGED lifecycleVars => UNCHANGED vars
           /\ part = "ServerScope" /\ UNCHANGED serverAccountVars => UNCHANGED vars
           /\ part \in {"TillCrashes", "TillRaces"} /\ UNCHANGED tillVars => UNCHANGED vars
<1>1. CASE Next
  BY <1>1, NextIsOfPart DEF ServerSlotsStep, LoginsStep, AccountEditsStep, BusyTabsStep,
     StoreClosingStep, ServerScopeStep, TillCrashesStep, TillRacesStep, OnlyServerOrders,
     OnlyAccounts, OnlyTabs, OnlyLifecycle, OnlyServerAccounts, OnlyTill, vars
<1>2. CASE UNCHANGED vars
  BY <1>2
<1> QED BY <1>1, <1>2

-----------------------------------------------------------------------------
(* Commands that are repeated.                                             *)

LEMMA OncePart ==
    Spec => [](part = "Once" => Browser!Once(OneCommand)!CommandsOnce)
<1> DEFINE c == OneCommand
<1>1. Init /\ part = "Once" => Browser!Once(c)!Init
  BY DEF Init, RepeatedInit
<1>2. [Next]_vars => /\ part = "Once" => [Browser!Once(c)!Next]_(Browser!Once(c)!vars)
                     /\ (part = "Once")' <=> part = "Once"
  BY StepIsOfPart DEF OnceStep, repeatVars, Browser!Once!vars
<1>3. Browser!Once(c)!CommandAssumption
  BY CommandsAssumption
<1> HIDE DEF c
<1>4. Browser!Once(c)!Spec => []Browser!Once(c)!CommandsOnce
  BY <1>3, Browser!CommandsActOnce, PTL
<1>5. Spec => [](part = "Once" => Browser!Once(c)!CommandsOnce)
  BY <1>1, <1>2, <1>4, PTL DEF Spec, Browser!Once!Spec
<1> QED BY <1>5 DEF c

LEMMA AgedPart ==
    Spec => [](part = "Aged" => Browser!Once(AgedCommand)!CommandsOnce)
<1> DEFINE c == AgedCommand
<1>1. Init /\ part = "Aged" => Browser!Once(c)!Init
  BY DEF Init, RepeatedInit
<1>2. [Next]_vars => /\ part = "Aged" => [Browser!Once(c)!Next]_(Browser!Once(c)!vars)
                     /\ (part = "Aged")' <=> part = "Aged"
  BY StepIsOfPart DEF AgedStep, repeatVars, Browser!Once!vars
<1>3. Browser!Once(c)!CommandAssumption
  BY CommandsAssumption
<1> HIDE DEF c
<1>4. Browser!Once(c)!Spec => []Browser!Once(c)!CommandsOnce
  BY <1>3, Browser!CommandsActOnce, PTL
<1>5. Spec => [](part = "Aged" => Browser!Once(c)!CommandsOnce)
  BY <1>1, <1>2, <1>4, PTL DEF Spec, Browser!Once!Spec
<1> QED BY <1>5 DEF c

LEMMA PanelsPart ==
    Spec => [](part = "Panels" => Browser!Once(PanelCommand)!CommandsOnce)
<1> DEFINE c == PanelCommand
<1>1. Init /\ part = "Panels" => Browser!Once(c)!Init
  BY DEF Init, RepeatedInit
<1>2. [Next]_vars => /\ part = "Panels" => [Browser!Once(c)!Next]_(Browser!Once(c)!vars)
                     /\ (part = "Panels")' <=> part = "Panels"
  BY StepIsOfPart DEF PanelsStep, repeatVars, Browser!Once!vars
<1>3. Browser!Once(c)!CommandAssumption
  BY CommandsAssumption
<1> HIDE DEF c
<1>4. Browser!Once(c)!Spec => []Browser!Once(c)!CommandsOnce
  BY <1>3, Browser!CommandsActOnce, PTL
<1>5. Spec => [](part = "Panels" => Browser!Once(c)!CommandsOnce)
  BY <1>1, <1>2, <1>4, PTL DEF Spec, Browser!Once!Spec
<1> QED BY <1>5 DEF c

\* In the suite as for every number of users, contents and repetitions: a command
\* takes effect once under its key, and a success that is told is its own.
THEOREM CommandsActOnce == Spec => []CommandsOnce
<1>1. CommandsOnce <=>
         /\ part = "Once" => Browser!Once(OneCommand)!CommandsOnce
         /\ part = "Aged" => Browser!Once(AgedCommand)!CommandsOnce
         /\ part = "Panels" => Browser!Once(PanelCommand)!CommandsOnce
  BY DEF CommandsOnce
<1> QED BY <1>1, OncePart, AgedPart, PanelsPart, PTL

-----------------------------------------------------------------------------
(* The forms of the web application.                                       *)

\* The forms of the suite are of the kinds that the theorems are about.
LEMMA SlotClass ==
    ASSUME NEW a
    PROVE  /\ Browser!VersionForm(Screen!Slot(a, "version"))
           /\ Browser!TellsApart(Screen!Slot(a, "version"))
           /\ Browser!NamedForm(Screen!Slot(a, "name"))
           /\ Browser!TellsApart(Screen!Slot(a, "name"))
BY DEF Screen!Slot, Browser!VersionForm, Browser!NamedForm, Browser!TellsApart,
   Browser!Freezes

LEMMA MapClass ==
    ASSUME NEW a
    PROVE  /\ Browser!VersionForm(Screen!Map(a, "version"))
           /\ Browser!TellsApart(Screen!Map(a, "version"))
           /\ Browser!TellsApart(Screen!Map(a, "none"))
           /\ a \subseteq {"ok"} => Browser!KeyedForm(Screen!Map(a, "none"))
BY DEF Screen!Slot, Screen!Map, Browser!VersionForm, Browser!KeyedForm,
   Browser!TellsApart, Browser!Freezes

LEMMA SlotFormsClass ==
    \A f \in SlotForms : /\ Browser!VersionForm(f) \/ Browser!NamedForm(f)
                         /\ Browser!TellsApart(f)
<1>1. Browser!NamedForm(Screen!AccountForm) /\ Browser!TellsApart(Screen!AccountForm)
  BY DEF Screen!AccountForm, Screen!Slot, Browser!NamedForm, Browser!TellsApart,
     Browser!Freezes
<1> QED BY <1>1, SlotClass DEF SlotForms, Screen!AllocationAnswer, Screen!OfferAnswer,
   Screen!OfferNoticeAnswer, Screen!TicketCancellation,
   Screen!DocumentCancellation, Screen!StockAdjustment, Screen!Observation,
   Screen!ReshareStatus, Screen!SourceSetting, Screen!SupplierOrder,
   Screen!SupplierOrderCancellation

LEMMA MapFormsClass ==
    \A f \in MapForms : /\ Browser!VersionForm(f) \/ Browser!KeyedForm(f)
                        /\ Browser!TellsApart(f)
BY MapClass DEF MapForms, Screen!StoreEdit, Screen!ReceiptCommand, Screen!BagOpening,
   Screen!Sorting, Screen!BucketMove, Screen!TransferCommand,
   Screen!SaleTransfer, Screen!SaleTransferReceipt,
   Screen!SaleTransferCancellation, Screen!GoodsReceipt,
   Screen!SessionCommand, Screen!OrderCancellation

LEMMA FrozenFormsClass ==
    \A f \in FrozenForms : Browser!VersionForm(f) \/ Browser!KeyedForm(f)
<1>1. Browser!KeyedForm(Screen!WarehouseInbound)
  BY DEF Screen!WarehouseInbound, Screen!Slot, Screen!Frozen, Browser!KeyedForm,
     Browser!Freezes
<1>2. Browser!VersionForm(Screen!EmergencyStatus)
  BY DEF Screen!EmergencyStatus, Screen!Slot, Screen!Frozen, Screen!Refusals,
     Browser!VersionForm, Browser!Freezes
<1>3. Browser!VersionForm(Screen!ShortageDecision)
  BY DEF Screen!ShortageDecision, Screen!Slot, Screen!Map, Browser!VersionForm,
     Browser!Freezes
<1> QED BY <1>1, <1>2, <1>3 DEF FrozenForms

LEMMA SlotsPart ==
    Spec => [](part = "Slots" =>
               /\ Browser!Web(SlotPages)!TypeOK
               /\ Browser!Web(SlotPages)!DoneOnce
               /\ Browser!Web(SlotPages)!KeyNamesOneRequest)
<1> DEFINE c == SlotPages
<1>1. Init /\ part = "Slots" => Browser!Web(c)!Init
  BY DEF Init, WebInit
<1>2. [Next]_vars => /\ part = "Slots" => [Browser!Web(c)!Next]_(Browser!Web(c)!vars)
                     /\ (part = "Slots")' <=> part = "Slots"
  BY StepIsOfPart DEF SlotsStep, webVars, Browser!Web!vars, Browser!Web!page,
     Browser!Web!server
<1>3. \A f \in c.forms : Browser!TellsApart(f)
  BY SlotFormsClass DEF SlotPages
<1>4. \A f \in c.forms :
         Browser!VersionForm(f) \/ Browser!KeyedForm(f) \/ Browser!NamedForm(f)
  BY SlotFormsClass DEF SlotPages
<1> HIDE DEF c
<1>5. Browser!Web(c)!Spec => [](Browser!Web(c)!TypeOK /\ Browser!Web(c)!SuccessIsReal)
  BY Browser!SuccessesAreReal, PTL
<1>6. Browser!Web(c)!Spec => []Browser!Web(c)!DoneOnce
  BY <1>4, Browser!WishesDoneOnce, PTL
<1>7. Browser!Web(c)!Spec => []Browser!Web(c)!KeyNamesOneRequest
  BY <1>3, Browser!KeysNameOneRequest, PTL
<1>8. Spec => [](part = "Slots" =>
                     /\ Browser!Web(c)!TypeOK
                     /\ Browser!Web(c)!DoneOnce
                     /\ Browser!Web(c)!KeyNamesOneRequest)
  BY <1>1, <1>2, <1>5, <1>6, <1>7, PTL DEF Spec, Browser!Web!Spec
<1> QED BY <1>8 DEF c

LEMMA MapsPart ==
    Spec => [](part = "Maps" =>
               /\ Browser!Web(MapPages)!DoneOnce
               /\ Browser!Web(MapPages)!KeyNamesOneRequest)
<1> DEFINE c == MapPages
<1>1. Init /\ part = "Maps" => Browser!Web(c)!Init
  BY DEF Init, WebInit
<1>2. [Next]_vars => /\ part = "Maps" => [Browser!Web(c)!Next]_(Browser!Web(c)!vars)
                     /\ (part = "Maps")' <=> part = "Maps"
  BY StepIsOfPart DEF MapsStep, webVars, Browser!Web!vars, Browser!Web!page,
     Browser!Web!server
<1>3. \A f \in c.forms : Browser!TellsApart(f)
  BY MapFormsClass DEF MapPages
<1>4. \A f \in c.forms :
         Browser!VersionForm(f) \/ Browser!KeyedForm(f) \/ Browser!NamedForm(f)
  BY MapFormsClass DEF MapPages
<1> HIDE DEF c
<1>5. Browser!Web(c)!Spec => []Browser!Web(c)!DoneOnce
  BY <1>4, Browser!WishesDoneOnce, PTL
<1>6. Browser!Web(c)!Spec => []Browser!Web(c)!KeyNamesOneRequest
  BY <1>3, Browser!KeysNameOneRequest, PTL
<1>7. Spec => [](part = "Maps" =>
                     /\ Browser!Web(c)!DoneOnce
                     /\ Browser!Web(c)!KeyNamesOneRequest)
  BY <1>1, <1>2, <1>5, <1>6, PTL DEF Spec, Browser!Web!Spec
<1> QED BY <1>7 DEF c

LEMMA FrozenPart ==
    Spec => [](part = "Frozen" =>
               /\ Browser!Web(FrozenPages)!DoneOnce
               /\ Browser!Web(FrozenPages)!SuccessIsReal)
<1> DEFINE c == FrozenPages
<1>1. Init /\ part = "Frozen" => Browser!Web(c)!Init
  BY DEF Init, WebInit
<1>2. [Next]_vars => /\ part = "Frozen" => [Browser!Web(c)!Next]_(Browser!Web(c)!vars)
                     /\ (part = "Frozen")' <=> part = "Frozen"
  BY StepIsOfPart DEF FrozenStep, webVars, Browser!Web!vars, Browser!Web!page,
     Browser!Web!server
<1>3. \A f \in c.forms :
         Browser!VersionForm(f) \/ Browser!KeyedForm(f) \/ Browser!NamedForm(f)
  BY FrozenFormsClass DEF FrozenPages
<1> HIDE DEF c
<1>4. Browser!Web(c)!Spec => []Browser!Web(c)!DoneOnce
  BY <1>3, Browser!WishesDoneOnce, PTL
<1>5. Browser!Web(c)!Spec => [](Browser!Web(c)!TypeOK /\ Browser!Web(c)!SuccessIsReal)
  BY Browser!SuccessesAreReal, PTL
<1>6. Spec => [](part = "Frozen" =>
                     /\ Browser!Web(c)!DoneOnce
                     /\ Browser!Web(c)!SuccessIsReal)
  BY <1>1, <1>2, <1>4, <1>5, PTL DEF Spec, Browser!Web!Spec
<1> QED BY <1>6 DEF c

LEMMA PartnerPart ==
    Spec => [](part = "Partner" => Browser!Web(PartnerPages)!TypeOK)
<1> DEFINE c == PartnerPages
<1>1. Init /\ part = "Partner" => Browser!Web(c)!Init
  BY DEF Init, WebInit
<1>2. [Next]_vars => /\ part = "Partner" => [Browser!Web(c)!Next]_(Browser!Web(c)!vars)
                     /\ (part = "Partner")' <=> part = "Partner"
  BY StepIsOfPart DEF PartnerStep, webVars, Browser!Web!vars, Browser!Web!page,
     Browser!Web!server
<1> HIDE DEF c
<1>3. Browser!Web(c)!Spec => [](Browser!Web(c)!TypeOK /\ Browser!Web(c)!SuccessIsReal)
  BY Browser!SuccessesAreReal, PTL
<1>4. Spec => [](part = "Partner" => Browser!Web(c)!TypeOK)
  BY <1>1, <1>2, <1>3, PTL DEF Spec, Browser!Web!Spec
<1> QED BY <1>4 DEF c

\* FormsSendOnce: each form of the suite does what its user wants once, however
\* often it is pressed; the forms that keep a slot or a map of keys never send
\* two things with one key, and those that freeze their fields show a success
\* only of what was done (idempotency.ts and the pages that use it).
THEOREM FormsStayOnce == Spec => []FormsSendOnce
<1>1. FormsSendOnce <=>
         /\ part = "Slots" =>
               /\ Browser!Web(SlotPages)!TypeOK
               /\ Browser!Web(SlotPages)!DoneOnce
               /\ Browser!Web(SlotPages)!KeyNamesOneRequest
         /\ part = "Maps" =>
               /\ Browser!Web(MapPages)!DoneOnce
               /\ Browser!Web(MapPages)!KeyNamesOneRequest
         /\ part = "Frozen" =>
               /\ Browser!Web(FrozenPages)!DoneOnce
               /\ Browser!Web(FrozenPages)!SuccessIsReal
         /\ part = "Partner" =>
               /\ Browser!Web(PartnerPages)!TypeOK
  BY DEF FormsSendOnce
<1> QED BY <1>1, SlotsPart, MapsPart, FrozenPart, PartnerPart, PTL

-----------------------------------------------------------------------------
(* Accounts, their sessions, and those of the in-memory server.            *)

LEMMA LoginsPart ==
    Spec => [](part = "Logins" =>
               /\ Company!Access(LoginTabs)!TypeOK
               /\ Company!Access(LoginTabs)!GuessesBounded)
<1> DEFINE c == LoginTabs
<1>1. Init /\ part = "Logins" => Company!Access(c)!Init
  BY DEF Init, AccountsInit
<1>2. [Next]_vars => /\ part = "Logins" => [Company!Access(c)!Next]_(Company!Access(c)!vars)
                     /\ (part = "Logins")' <=> part = "Logins"
  BY StepIsOfPart DEF LoginsStep, accountVars, Company!Access!vars
<1>3. Company!Access(c)!AccountSessionsAssumption
  BY CommandsAssumption
<1> HIDE DEF c
<1>4. Company!Access(c)!Spec => [](Company!Access(c)!TypeOK /\ Company!Access(c)!GuessesBounded)
  BY <1>3, Company!GuessesStayBounded, PTL
<1>5. Spec => [](part = "Logins" =>
                   /\ Company!Access(c)!TypeOK
                   /\ Company!Access(c)!GuessesBounded)
  BY <1>1, <1>2, <1>4, PTL DEF Spec, Company!Access!Spec
<1> QED BY <1>5 DEF c

LEMMA ManyTabsPart ==
    Spec => [](part = "ManyTabs" =>
               /\ Company!Tabbed(ThreeTabs)!TypeOK
               /\ Company!Tabbed(ThreeTabs)!JarBounded)
<1> DEFINE c == ThreeTabs
<1>1. Init /\ part = "ManyTabs" => Company!Tabbed(c)!Init
  BY DEF Init, TabsInit
<1>2. [Next]_vars => /\ part = "ManyTabs" => [Company!Tabbed(c)!Next]_(Company!Tabbed(c)!vars)
                     /\ (part = "ManyTabs")' <=> part = "ManyTabs"
  BY StepIsOfPart DEF ManyTabsStep, tabVars, Company!Tabbed!vars
<1>3. Company!Tabbed(c)!TabSessionsAssumption
  BY CommandsAssumption
<1> HIDE DEF c
<1>4. Company!Tabbed(c)!Spec => [](Company!Tabbed(c)!TypeOK /\ Company!Tabbed(c)!JarBounded)
  BY <1>3, Company!JarStaysBounded, PTL
<1>5. Spec => [](part = "ManyTabs" =>
                   /\ Company!Tabbed(c)!TypeOK
                   /\ Company!Tabbed(c)!JarBounded)
  BY <1>1, <1>2, <1>4, PTL DEF Spec, Company!Tabbed!Spec
<1> QED BY <1>5 DEF c

LEMMA BusyTabsPart ==
    Spec => [](part = "BusyTabs" =>
               /\ Company!Tabbed(BusyTabs)!TypeOK
               /\ Company!Tabbed(BusyTabs)!JarBounded)
<1> DEFINE c == BusyTabs
<1>1. Init /\ part = "BusyTabs" => Company!Tabbed(c)!Init
  BY DEF Init, TabsInit
<1>2. [Next]_vars => /\ part = "BusyTabs" => [Company!Tabbed(c)!Next]_(Company!Tabbed(c)!vars)
                     /\ (part = "BusyTabs")' <=> part = "BusyTabs"
  BY StepIsOfPart DEF BusyTabsStep, tabVars, Company!Tabbed!vars
<1>3. Company!Tabbed(c)!TabSessionsAssumption
  BY CommandsAssumption
<1> HIDE DEF c
<1>4. Company!Tabbed(c)!Spec => [](Company!Tabbed(c)!TypeOK /\ Company!Tabbed(c)!JarBounded)
  BY <1>3, Company!JarStaysBounded, PTL
<1>5. Spec => [](part = "BusyTabs" =>
                   /\ Company!Tabbed(c)!TypeOK
                   /\ Company!Tabbed(c)!JarBounded)
  BY <1>1, <1>2, <1>4, PTL DEF Spec, Company!Tabbed!Spec
<1> QED BY <1>5 DEF c

LEMMA OneCookiePart ==
    Spec => [](part = "OneCookie" =>
               /\ Company!Tabbed(OneCookie)!TypeOK
               /\ Company!Tabbed(OneCookie)!JarBounded)
<1> DEFINE c == OneCookie
<1>1. Init /\ part = "OneCookie" => Company!Tabbed(c)!Init
  BY DEF Init, TabsInit
<1>2. [Next]_vars => /\ part = "OneCookie" => [Company!Tabbed(c)!Next]_(Company!Tabbed(c)!vars)
                     /\ (part = "OneCookie")' <=> part = "OneCookie"
  BY StepIsOfPart DEF OneCookieStep, tabVars, Company!Tabbed!vars
<1>3. Company!Tabbed(c)!TabSessionsAssumption
  BY CommandsAssumption
<1> HIDE DEF c
<1>4. Company!Tabbed(c)!Spec => [](Company!Tabbed(c)!TypeOK /\ Company!Tabbed(c)!JarBounded)
  BY <1>3, Company!JarStaysBounded, PTL
<1>5. Spec => [](part = "OneCookie" =>
                   /\ Company!Tabbed(c)!TypeOK
                   /\ Company!Tabbed(c)!JarBounded)
  BY <1>1, <1>2, <1>4, PTL DEF Spec, Company!Tabbed!Spec
<1> QED BY <1>5 DEF c

LEMMA FewTabsPart ==
    Spec => [](part = "FewTabs" =>
               /\ Company!Tabbed(TwoTabs)!TypeOK
               /\ Company!Tabbed(TwoTabs)!FewTabsUndisturbed)
<1> DEFINE c == TwoTabs
<1>1. Init /\ part = "FewTabs" => Company!Tabbed(c)!Init
  BY DEF Init, TabsInit
<1>2. [Next]_vars => /\ part = "FewTabs" => [Company!Tabbed(c)!Next]_(Company!Tabbed(c)!vars)
                     /\ (part = "FewTabs")' <=> part = "FewTabs"
  BY StepIsOfPart DEF FewTabsStep, tabVars, Company!Tabbed!vars
<1>3. Company!Tabbed(c)!TabSessionsAssumption
  BY CommandsAssumption
<1> HIDE DEF c
<1>4. Company!Tabbed(c)!Spec
      => [](Company!Tabbed(c)!TypeOK /\ Company!Tabbed(c)!FewTabsUndisturbed)
  BY <1>3, Company!FewTabsStay, PTL
<1>5. Spec => [](part = "FewTabs" =>
                   /\ Company!Tabbed(c)!TypeOK
                   /\ Company!Tabbed(c)!FewTabsUndisturbed)
  BY <1>1, <1>2, <1>4, PTL DEF Spec, Company!Tabbed!Spec
<1> QED BY <1>5 DEF c

LEMMA ServerLoginsPart ==
    Spec => [](part = "ServerLogins" =>
               /\ Company!Server(OneName)!TypeOK
               /\ Company!Server(OneName)!AsManyAsOverlap)
<1> DEFINE c == OneName
<1>1. Init /\ part = "ServerLogins" => Company!Server(c)!Init
  BY DEF Init, ServerAccountsInit
<1>2. [Next]_vars => /\ part = "ServerLogins"
                        => [Company!Server(c)!Next]_(Company!Server(c)!vars)
                     /\ (part = "ServerLogins")' <=> part = "ServerLogins"
  BY StepIsOfPart DEF ServerLoginsStep, serverAccountVars, Company!Server!vars
<1>3. Company!Server(c)!MemoryAccountBounds
  BY CommandsAssumption
<1> HIDE DEF c
<1>4. Company!Server(c)!Spec => []Company!Server(c)!TypeOK
  BY <1>3, Company!ServerRowsAgree, PTL
<1>5. Company!Server(c)!Spec => []Company!Server(c)!AsManyAsOverlap
  BY <1>3, Company!ActiveAsOverlapping, PTL
<1>6. Spec => [](part = "ServerLogins" =>
                   /\ Company!Server(c)!TypeOK
                   /\ Company!Server(c)!AsManyAsOverlap)
  BY <1>1, <1>2, <1>4, <1>5, PTL DEF Spec, Company!Server!Spec
<1> QED BY <1>6 DEF c

LEMMA ServerScopePart ==
    Spec => [](part = "ServerScope" => Company!Server(OneScope)!ScopeIsAssignments)
<1> DEFINE c == OneScope
<1>1. Init /\ part = "ServerScope" => Company!Server(c)!Init
  BY DEF Init, ServerAccountsInit
<1>2. [Next]_vars => /\ part = "ServerScope"
                        => [Company!Server(c)!Next]_(Company!Server(c)!vars)
                     /\ (part = "ServerScope")' <=> part = "ServerScope"
  BY StepIsOfPart DEF ServerScopeStep, serverAccountVars, Company!Server!vars
<1>3. Company!Server(c)!MemoryAccountBounds
  BY CommandsAssumption
<1> HIDE DEF c
<1>4. Company!Server(c)!Spec => []Company!Server(c)!ScopeIsAssignments
  BY <1>3, Company!ServerRowsAgree, PTL
<1>5. Spec => [](part = "ServerScope" => Company!Server(c)!ScopeIsAssignments)
  BY <1>1, <1>2, <1>4, PTL DEF Spec, Company!Server!Spec
<1> QED BY <1>5 DEF c

LEMMA ServerGroupsPart ==
    Spec => [](part = "ServerGroups" => Company!Server(TwoGroups)!OpenStoreInOpenGroup)
<1> DEFINE c == TwoGroups
<1>1. Init /\ part = "ServerGroups" => Company!Server(c)!Init
  BY DEF Init, ServerAccountsInit
<1>2. [Next]_vars => /\ part = "ServerGroups"
                        => [Company!Server(c)!Next]_(Company!Server(c)!vars)
                     /\ (part = "ServerGroups")' <=> part = "ServerGroups"
  BY StepIsOfPart DEF ServerGroupsStep, serverAccountVars, Company!Server!vars
<1>3. Company!Server(c)!MemoryAccountBounds
  BY CommandsAssumption
<1> HIDE DEF c
<1>4. Company!Server(c)!Spec => []Company!Server(c)!OpenStoreInOpenGroup
  BY <1>3, Company!ServerRowsAgree, PTL
<1>5. Spec => [](part = "ServerGroups" => Company!Server(c)!OpenStoreInOpenGroup)
  BY <1>1, <1>2, <1>4, PTL DEF Spec, Company!Server!Spec
<1> QED BY <1>5 DEF c

\* Passwords are not guessed beyond the limit, the cookies of a browser exceed
\* their limit by no more than the logins that were under way at once and tabs
\* that fit in it are not disturbed, and the in-memory server has no more active
\* accounts of a name or a store than it had creations under way at once, and
\* keeps the stores accounts were given.
THEOREM LoginsStayHeld == Spec => []LoginsHold
<1>1. LoginsHold <=>
         /\ part = "Logins" =>
               /\ Company!Access(LoginTabs)!TypeOK
               /\ Company!Access(LoginTabs)!GuessesBounded
         /\ part = "ManyTabs" =>
               /\ Company!Tabbed(ThreeTabs)!TypeOK
               /\ Company!Tabbed(ThreeTabs)!JarBounded
         /\ part = "BusyTabs" =>
               /\ Company!Tabbed(BusyTabs)!TypeOK
               /\ Company!Tabbed(BusyTabs)!JarBounded
         /\ part = "OneCookie" =>
               /\ Company!Tabbed(OneCookie)!TypeOK
               /\ Company!Tabbed(OneCookie)!JarBounded
         /\ part = "FewTabs" =>
               /\ Company!Tabbed(TwoTabs)!TypeOK
               /\ Company!Tabbed(TwoTabs)!FewTabsUndisturbed
         /\ part = "ServerLogins" =>
               /\ Company!Server(OneName)!TypeOK
               /\ Company!Server(OneName)!AsManyAsOverlap
         /\ part = "ServerScope" => Company!Server(OneScope)!ScopeIsAssignments
         /\ part = "ServerGroups" => Company!Server(TwoGroups)!OpenStoreInOpenGroup
  BY DEF LoginsHold
<1> QED
  BY <1>1, LoginsPart, ManyTabsPart, BusyTabsPart, OneCookiePart, FewTabsPart,
     ServerLoginsPart, ServerScopePart, ServerGroupsPart, PTL

-----------------------------------------------------------------------------
(* Who may give which command.                                             *)

LEMMA RepeatsPart ==
    Spec => [](part = "Repeats" => Repeats!RightsHold)
<1>1. Init /\ part = "Repeats" => Repeats!Init
  BY DEF Init, RightsInit
<1>2. [Next]_vars => /\ part = "Repeats" => [Repeats!Next]_(Repeats!vars)
                     /\ (part = "Repeats")' <=> part = "Repeats"
  BY StepIsOfPart DEF RepeatsStep, rightVars, Repeats!vars
<1>3. Repeats!Spec => []Repeats!RightsHold
  BY CommandsAssumption, Repeats!RightsStayHeld
<1> QED BY <1>1, <1>2, <1>3, PTL DEF Spec, Repeats!Spec

LEMMA ChangesPart ==
    Spec => [](part = "Changes" => Changes!RightsHold)
<1>1. Init /\ part = "Changes" => Changes!Init
  BY DEF Init, RightsInit
<1>2. [Next]_vars => /\ part = "Changes" => [Changes!Next]_(Changes!vars)
                     /\ (part = "Changes")' <=> part = "Changes"
  BY StepIsOfPart DEF ChangesStep, rightVars, Changes!vars
<1>3. Changes!Spec => []Changes!RightsHold
  BY CommandsAssumption, Changes!RightsStayHeld
<1> QED BY <1>1, <1>2, <1>3, PTL DEF Spec, Changes!Spec

\* No command acts beyond the rights its user had when it began, also when they
\* are taken away meanwhile or the command is repeated.
THEOREM RightsStayHeld == Spec => []RightsHold
<1>1. RightsHold <=>
         /\ part = "Repeats" => Repeats!RightsHold
         /\ part = "Changes" => Changes!RightsHold
  BY DEF RightsHold
<1> QED BY <1>1, RepeatsPart, ChangesPart, PTL

-----------------------------------------------------------------------------
(* The sharing of goods.                                                   *)

LEMMA TiersPart ==
    Spec => [](part = "Tiers" => Tiers!SharesFair /\ Tiers!StoresServed)
<1>1. Init /\ part = "Tiers" => Tiers!Init
  BY DEF Init, SharingInit
<1>2. [Next]_vars => /\ part = "Tiers" => [Tiers!Next]_(Tiers!vars)
                     /\ (part = "Tiers")' <=> part = "Tiers"
  BY StepIsOfPart DEF TiersStep, shareVars, Tiers!vars
<1>3. Tiers!Spec => [](Tiers!SharesFair /\ Tiers!StoresServed)
  BY CommandsAssumption, Tiers!SharesStayFair, Tiers!StoresRotate, PTL
<1> QED BY <1>1, <1>2, <1>3, PTL DEF Spec, Tiers!Spec

LEMMA RoundsPart ==
    Spec => [](part = "Rounds" => Rounds!SharesFair /\ Rounds!StoresServed)
<1>1. Init /\ part = "Rounds" => Rounds!Init
  BY DEF Init, SharingInit
<1>2. [Next]_vars => /\ part = "Rounds" => [Rounds!Next]_(Rounds!vars)
                     /\ (part = "Rounds")' <=> part = "Rounds"
  BY StepIsOfPart DEF RoundsStep, shareVars, Rounds!vars
<1>3. Rounds!Spec => [](Rounds!SharesFair /\ Rounds!StoresServed)
  BY CommandsAssumption, Rounds!SharesStayFair, Rounds!StoresRotate, PTL
<1> QED BY <1>1, <1>2, <1>3, PTL DEF Spec, Rounds!Spec

LEMMA TwoTiersPart ==
    Spec => [](part = "TwoTiers" => TwoTiers!SharesFair /\ TwoTiers!StoresServed)
<1>1. Init /\ part = "TwoTiers" => TwoTiers!Init
  BY DEF Init, SharingInit
<1>2. [Next]_vars => /\ part = "TwoTiers" => [TwoTiers!Next]_(TwoTiers!vars)
                     /\ (part = "TwoTiers")' <=> part = "TwoTiers"
  BY StepIsOfPart DEF TwoTiersStep, shareVars, TwoTiers!vars
<1>3. TwoTiers!Spec => [](TwoTiers!SharesFair /\ TwoTiers!StoresServed)
  BY CommandsAssumption, TwoTiers!SharesStayFair, TwoTiers!StoresRotate, PTL
<1> QED BY <1>1, <1>2, <1>3, PTL DEF Spec, TwoTiers!Spec

LEMMA SharesPart ==
    Spec => [](part = "Shares" => Shares!SharesFair)
<1>1. Init /\ part = "Shares" => Shares!Init
  BY DEF Init, SharingInit
<1>2. [Next]_vars => /\ part = "Shares" => [Shares!Next]_(Shares!vars)
                     /\ (part = "Shares")' <=> part = "Shares"
  BY StepIsOfPart DEF SharesStep, shareVars, Shares!vars
<1>3. Shares!Spec => []Shares!SharesFair
  BY CommandsAssumption, Shares!SharesStayFair
<1> QED BY <1>1, <1>2, <1>3, PTL DEF Spec, Shares!Spec

\* The loop of the rounds comes to the fair shares within each tier, higher tiers
\* first, from whatever cursor it starts.
THEOREM SharesStayFair == Spec => []SharesFair
<1>1. SharesFair <=>
         /\ part = "Tiers" => Tiers!SharesFair
         /\ part = "Rounds" => Rounds!SharesFair
         /\ part = "TwoTiers" => TwoTiers!SharesFair
         /\ part = "Shares" => Shares!SharesFair
  BY DEF SharesFair
<1> QED BY <1>1, TiersPart, RoundsPart, TwoTiersPart, SharesPart, PTL

\* No store is passed over more often than the others need for their turn, run
\* after run.
THEOREM StoresStayServed == Spec => []StoresServed
<1>1. StoresServed <=>
         /\ part = "Tiers" => Tiers!StoresServed
         /\ part = "Rounds" => Rounds!StoresServed
         /\ part = "TwoTiers" => TwoTiers!StoresServed
  BY DEF StoresServed
<1> QED BY <1>1, TiersPart, RoundsPart, TwoTiersPart, PTL

-----------------------------------------------------------------------------
(* Stores, their groups and their accounts.                                *)

LEMMA StoreClosingPart ==
    Spec => /\ [](part = "StoreClosing" =>
               /\ Company!Life(Closing)!TypeOK
               /\ Company!Life(Closing)!NoCountedWorkLeft)
            /\ [][part = "StoreClosing" => Company!Life(Closing)!StrandedStay]_vars
<1> DEFINE c == Closing
<1>1. Init /\ part = "StoreClosing" => Company!Life(c)!Init
  BY DEF Init, LifecycleInit
<1>2. [Next]_vars => /\ part = "StoreClosing" => [Company!Life(c)!Next]_(Company!Life(c)!vars)
                     /\ (part = "StoreClosing")' <=> part = "StoreClosing"
  BY StepIsOfPart DEF StoreClosingStep, lifecycleVars, Company!Life!vars
<1>3. Company!Life(c)!StoreLifecycleAssumption
  BY CommandsAssumption
<1>4. [Next]_vars => (part = "StoreClosing" /\ UNCHANGED Company!Life(c)!vars => UNCHANGED vars)
  BY PartsRest DEF lifecycleVars, Company!Life!vars
<1> HIDE DEF c
<1>5. Company!Life(c)!Spec
      => /\ [](Company!Life(c)!TypeOK /\ Company!Life(c)!NoCountedWorkLeft)
         /\ [][Company!Life(c)!StrandedStay]_(Company!Life(c)!vars)
  BY <1>3, Company!StoresStayConsistent, PTL
<1>6. Spec => /\ [](part = "StoreClosing" =>
                 /\ Company!Life(c)!TypeOK
                 /\ Company!Life(c)!NoCountedWorkLeft)
              /\ [][part = "StoreClosing" => Company!Life(c)!StrandedStay]_vars
  BY <1>1, <1>2, <1>4, <1>5, PTL DEF Spec, Company!Life!Spec
<1> QED BY <1>6 DEF c

LEMMA StoreGroupsPart ==
    Spec => /\ [](part = "StoreGroups" =>
               /\ Company!Life(Grouping)!TypeOK
               /\ Company!Life(Grouping)!OpenStoreActiveGroup)
            /\ [][part = "StoreGroups" => Company!Life(Grouping)!StoreEditsSeen]_vars
<1> DEFINE c == Grouping
<1>1. Init /\ part = "StoreGroups" => Company!Life(c)!Init
  BY DEF Init, LifecycleInit
<1>2. [Next]_vars => /\ part = "StoreGroups" => [Company!Life(c)!Next]_(Company!Life(c)!vars)
                     /\ (part = "StoreGroups")' <=> part = "StoreGroups"
  BY StepIsOfPart DEF StoreGroupsStep, lifecycleVars, Company!Life!vars
<1>3. Company!Life(c)!StoreLifecycleAssumption
  BY CommandsAssumption
<1>4. UNCHANGED Company!Life(c)!vars => Company!Life(c)!StoreEditsSeen
  BY DEF Company!Life!vars, Company!Life!StoreEditsSeen
<1> HIDE DEF c
<1>5. Company!Life(c)!Spec
      => /\ [](Company!Life(c)!TypeOK /\ Company!Life(c)!OpenStoreActiveGroup)
         /\ [][Company!Life(c)!StoreEditsSeen]_(Company!Life(c)!vars)
  BY <1>3, Company!StoresStayConsistent, PTL
<1>6. Spec => /\ [](part = "StoreGroups" =>
                 /\ Company!Life(c)!TypeOK
                 /\ Company!Life(c)!OpenStoreActiveGroup)
              /\ [][part = "StoreGroups" => Company!Life(c)!StoreEditsSeen]_vars
  BY <1>1, <1>2, <1>4, <1>5, PTL DEF Spec, Company!Life!Spec
<1> QED BY <1>6 DEF c

LEMMA StoreAccountsPart ==
    Spec => [](part = "StoreAccounts" =>
               /\ Company!Life(Staffing)!TypeOK
               /\ Company!Life(Staffing)!OneAccountPerStore)
<1> DEFINE c == Staffing
<1>1. Init /\ part = "StoreAccounts" => Company!Life(c)!Init
  BY DEF Init, LifecycleInit
<1>2. [Next]_vars => /\ part = "StoreAccounts" => [Company!Life(c)!Next]_(Company!Life(c)!vars)
                     /\ (part = "StoreAccounts")' <=> part = "StoreAccounts"
  BY StepIsOfPart DEF StoreAccountsStep, lifecycleVars, Company!Life!vars
<1>3. Company!Life(c)!StoreLifecycleAssumption
  BY CommandsAssumption
<1> HIDE DEF c
<1>4. Company!Life(c)!Spec => [](Company!Life(c)!TypeOK /\ Company!Life(c)!OneAccountPerStore)
  BY <1>3, Company!StoresStayConsistent, PTL
<1>5. Spec => [](part = "StoreAccounts" =>
                 /\ Company!Life(c)!TypeOK
                 /\ Company!Life(c)!OneAccountPerStore)
  BY <1>1, <1>2, <1>4, PTL DEF Spec, Company!Life!Spec
<1> QED BY <1>5 DEF c

\* A closed store has nothing left of the work that assertStoreHasNoPendingWork
\* counts (goods issued to it and not declared yet are not), an open one has an
\* active group, and none has two working accounts, whatever forms are out of date.
THEOREM StoresStayConsistent == Spec => []StoresConsistent
<1>1. StoresConsistent <=>
         /\ part = "StoreClosing" =>
               /\ Company!Life(Closing)!TypeOK
               /\ Company!Life(Closing)!NoCountedWorkLeft
         /\ part = "StoreGroups" =>
               /\ Company!Life(Grouping)!TypeOK
               /\ Company!Life(Grouping)!OpenStoreActiveGroup
         /\ part = "StoreAccounts" =>
               /\ Company!Life(Staffing)!TypeOK
               /\ Company!Life(Staffing)!OneAccountPerStore
  BY DEF StoresConsistent
<1> QED BY <1>1, StoreClosingPart, StoreGroupsPart, StoreAccountsPart, PTL

-----------------------------------------------------------------------------
(* The conversion ratios of a product.                                     *)

LEMMA RatioPagesPart ==
    Spec => /\ (part = "RatioPages" => Company!Ratio(TwoPages)!CatalogInit)
            /\ [](part = "RatioPages" => Company!Ratio(TwoPages)!RatiosKept)
            /\ [][part = "RatioPages" =>
                  /\ Company!Ratio(TwoPages)!HistoryStays
                  /\ Company!Ratio(TwoPages)!CatalogStep]_vars
<1> DEFINE c == TwoPages
<1>1. Init /\ part = "RatioPages" => Company!Ratio(c)!Init
  BY DEF Init, RatiosInit
<1>2. [Next]_vars => /\ part = "RatioPages" => [Company!Ratio(c)!Next]_(Company!Ratio(c)!vars)
                     /\ (part = "RatioPages")' <=> part = "RatioPages"
  BY StepIsOfPart DEF RatioPagesStep, ratioVars, Company!Ratio!vars
<1>3. Company!Ratio(c)!HistoryAssumption
  BY CommandsAssumption
<1> HIDE DEF c
<1>4. UNCHANGED Company!Ratio(c)!vars =>
         Company!Ratio(c)!HistoryStays /\ Company!Ratio(c)!CatalogStep
  BY Company!RatiosAtRest
<1>5. Company!Ratio(c)!Spec => []Company!Ratio(c)!RatiosKept
  BY <1>3, Company!RatiosStayKept, PTL
<1>6. Company!Ratio(c)!Spec =>
         /\ Company!Ratio(c)!CatalogInit
         /\ [][Company!Ratio(c)!HistoryStays /\ Company!Ratio(c)!CatalogStep]_(Company!Ratio(c)!vars)
  BY <1>3, Company!RecordIsKept, PTL
<1>7. Spec => /\ (part = "RatioPages" => Company!Ratio(c)!CatalogInit)
              /\ [](part = "RatioPages" => Company!Ratio(c)!RatiosKept)
              /\ [][part = "RatioPages" =>
                    /\ Company!Ratio(c)!HistoryStays
                    /\ Company!Ratio(c)!CatalogStep]_vars
  BY <1>1, <1>2, <1>4, <1>5, <1>6, PTL DEF Spec, Company!Ratio!Spec
<1> QED BY <1>7 DEF c

LEMMA RatioChoicesPart ==
    Spec => /\ (part = "RatioChoices" => Company!Ratio(TwoRatios)!CatalogInit)
            /\ [](part = "RatioChoices" => Company!Ratio(TwoRatios)!RatiosKept)
            /\ [][part = "RatioChoices" =>
                  /\ Company!Ratio(TwoRatios)!HistoryStays
                  /\ Company!Ratio(TwoRatios)!CatalogStep]_vars
<1> DEFINE c == TwoRatios
<1>1. Init /\ part = "RatioChoices" => Company!Ratio(c)!Init
  BY DEF Init, RatiosInit
<1>2. [Next]_vars => /\ part = "RatioChoices" => [Company!Ratio(c)!Next]_(Company!Ratio(c)!vars)
                     /\ (part = "RatioChoices")' <=> part = "RatioChoices"
  BY StepIsOfPart DEF RatioChoicesStep, ratioVars, Company!Ratio!vars
<1>3. Company!Ratio(c)!HistoryAssumption
  BY CommandsAssumption
<1> HIDE DEF c
<1>4. UNCHANGED Company!Ratio(c)!vars =>
         Company!Ratio(c)!HistoryStays /\ Company!Ratio(c)!CatalogStep
  BY Company!RatiosAtRest
<1>5. Company!Ratio(c)!Spec => []Company!Ratio(c)!RatiosKept
  BY <1>3, Company!RatiosStayKept, PTL
<1>6. Company!Ratio(c)!Spec =>
         /\ Company!Ratio(c)!CatalogInit
         /\ [][Company!Ratio(c)!HistoryStays /\ Company!Ratio(c)!CatalogStep]_(Company!Ratio(c)!vars)
  BY <1>3, Company!RecordIsKept, PTL
<1>7. Spec => /\ (part = "RatioChoices" => Company!Ratio(c)!CatalogInit)
              /\ [](part = "RatioChoices" => Company!Ratio(c)!RatiosKept)
              /\ [][part = "RatioChoices" =>
                    /\ Company!Ratio(c)!HistoryStays
                    /\ Company!Ratio(c)!CatalogStep]_vars
  BY <1>1, <1>2, <1>4, <1>5, <1>6, PTL DEF Spec, Company!Ratio!Spec
<1> QED BY <1>7 DEF c

\* No product has two ratios on a day, and the history of its ratios does not
\* branch, whatever pages are out of date.
THEOREM RatiosStayKept == Spec => []RatiosKept
<1>1. RatiosKept <=>
         /\ part = "RatioPages" => Company!Ratio(TwoPages)!RatiosKept
         /\ part = "RatioChoices" => Company!Ratio(TwoRatios)!RatiosKept
  BY DEF RatiosKept
<1> QED BY <1>1, RatioPagesPart, RatioChoicesPart, PTL

-----------------------------------------------------------------------------
(* The reset of test data.                                                 *)

LEMMA ResetsPart ==
    Spec => /\ [](part = "Resets" => Resets!ResetKept)
            /\ [][part = "Resets" => Resets!OnlyReviewedIsPurged]_vars
<1>1. Init /\ part = "Resets" => Resets!Init
  BY DEF Init, ResetInit
<1>2. [Next]_vars => /\ part = "Resets" => [Resets!Next]_(Resets!vars)
                     /\ (part = "Resets")' <=> part = "Resets"
  BY StepIsOfPart DEF ResetsStep, resetVars, Resets!vars
<1>3. UNCHANGED Resets!vars => Resets!OnlyReviewedIsPurged
  BY DEF Resets!vars, Resets!OnlyReviewedIsPurged
<1>4. Resets!Spec => /\ []Resets!ResetKept
                     /\ [][Resets!OnlyReviewedIsPurged]_(Resets!vars)
  BY CommandsAssumption, Resets!ResetStaysClean, Resets!PurgesAreReviewed, PTL
<1> QED BY <1>1, <1>2, <1>3, <1>4, PTL DEF Spec, Resets!Spec

LEMMA RetainedPart ==
    Spec => [](part = "Retained" => Retained!TypeOK /\ Retained!RecoveryCopyKept)
<1>1. Init /\ part = "Retained" => Retained!Init
  BY DEF Init, ResetInit
<1>2. [Next]_vars => /\ part = "Retained" => [Retained!Next]_(Retained!vars)
                     /\ (part = "Retained")' <=> part = "Retained"
  BY StepIsOfPart DEF RetainedStep, resetVars, Retained!vars
<1>3. Retained!ResetKept => Retained!TypeOK
  BY DEF Retained!ResetKept
<1>4. Retained!Spec => []Retained!ResetKept
  BY CommandsAssumption, Retained!ResetStaysClean
<1>5. Retained!Spec => []Retained!RecoveryCopyKept
  BY CommandsAssumption, Retained!RecoveryCopiesStay
<1> QED BY <1>1, <1>2, <1>3, <1>4, <1>5, PTL DEF Spec, Retained!Spec

\* No form of an old epoch is applied and nothing that was purged comes back,
\* whatever arrives late; and what a retained operation removed is in a copy.
THEOREM ResetStaysClean == Spec => []ResetClean
<1>1. ResetClean <=>
         /\ part = "Resets" => Resets!ResetKept
         /\ part = "Retained" => Retained!TypeOK /\ Retained!RecoveryCopyKept
  BY DEF ResetClean
<1> QED BY <1>1, ResetsPart, RetainedPart, PTL

-----------------------------------------------------------------------------
(* What a step may never do.                                               *)

\* Stores are edited as they were seen, goods left at a closed store stay as they
\* are, what was said of ratios stays said, the database is an implementation of
\* the plain catalogue, and no row is purged that no review has seen.
THEOREM RecordStays == Spec => RecordStands
BY StoreClosingPart, StoreGroupsPart, RatioPagesPart, RatioChoicesPart, ResetsPart, PTL DEF RecordStands

-----------------------------------------------------------------------------
(* The figures of the tills, and what a step of the parts above may never do. *)

LEMMA TillCrashesPart ==
    Spec => /\ [](part = "TillCrashes" =>
                  /\ Company!Till(OneRestart)!TypeOK
                  /\ Company!Till(OneRestart)!ClosedMonthComplete)
            /\ [][part = "TillCrashes" =>
                  /\ Company!Till(OneRestart)!FiguresNeverGoBack
                  /\ Company!Till(OneRestart)!AnswerReachesStock]_vars
<1> DEFINE c == OneRestart
<1>1. Init /\ part = "TillCrashes" => Company!Till(c)!Init
  BY DEF Init, TillInit
<1>2. [Next]_vars => /\ part = "TillCrashes" => [Company!Till(c)!Next]_(Company!Till(c)!vars)
                     /\ (part = "TillCrashes")' <=> part = "TillCrashes"
  BY StepIsOfPart DEF TillCrashesStep, tillVars, Company!Till!vars
<1>3. [Next]_vars => (part = "TillCrashes" /\ UNCHANGED Company!Till(c)!vars => UNCHANGED vars)
  BY PartsRest DEF tillVars, Company!Till!vars
<1>4. Company!Till(c)!TillSyncAssumption
  BY CommandsAssumption
<1> HIDE DEF c
<1>5. Company!Till(c)!Spec => [](Company!Till(c)!TypeOK /\ Company!Till(c)!ClosedMonthComplete)
  BY <1>4, Company!ClosedMonthsStayComplete, PTL
<1>6. Company!Till(c)!Spec => [][Company!Till(c)!FiguresNeverGoBack /\ Company!Till(c)!AnswerReachesStock]_(Company!Till(c)!vars)
  BY <1>4, Company!FiguresReachTheStock, PTL
<1>7. Spec => /\ [](part = "TillCrashes" =>
                  /\ Company!Till(c)!TypeOK
                  /\ Company!Till(c)!ClosedMonthComplete)
              /\ [][part = "TillCrashes" =>
                  /\ Company!Till(c)!FiguresNeverGoBack
                  /\ Company!Till(c)!AnswerReachesStock]_vars
  BY <1>1, <1>2, <1>3, <1>5, <1>6, PTL DEF Spec, Company!Till!Spec
<1> QED BY <1>7 DEF c

LEMMA TillRacesPart ==
    Spec => /\ [](part = "TillRaces" =>
                  /\ Company!Till(OneManager)!TypeOK
                  /\ Company!Till(OneManager)!ClosedMonthComplete)
            /\ [][part = "TillRaces" =>
                  /\ Company!Till(OneManager)!FiguresNeverGoBack
                  /\ Company!Till(OneManager)!AnswerReachesStock]_vars
<1> DEFINE c == OneManager
<1>1. Init /\ part = "TillRaces" => Company!Till(c)!Init
  BY DEF Init, TillInit
<1>2. [Next]_vars => /\ part = "TillRaces" => [Company!Till(c)!Next]_(Company!Till(c)!vars)
                     /\ (part = "TillRaces")' <=> part = "TillRaces"
  BY StepIsOfPart DEF TillRacesStep, tillVars, Company!Till!vars
<1>3. [Next]_vars => (part = "TillRaces" /\ UNCHANGED Company!Till(c)!vars => UNCHANGED vars)
  BY PartsRest DEF tillVars, Company!Till!vars
<1>4. Company!Till(c)!TillSyncAssumption
  BY CommandsAssumption
<1> HIDE DEF c
<1>5. Company!Till(c)!Spec => [](Company!Till(c)!TypeOK /\ Company!Till(c)!ClosedMonthComplete)
  BY <1>4, Company!ClosedMonthsStayComplete, PTL
<1>6. Company!Till(c)!Spec => [][Company!Till(c)!FiguresNeverGoBack /\ Company!Till(c)!AnswerReachesStock]_(Company!Till(c)!vars)
  BY <1>4, Company!FiguresReachTheStock, PTL
<1>7. Spec => /\ [](part = "TillRaces" =>
                  /\ Company!Till(c)!TypeOK
                  /\ Company!Till(c)!ClosedMonthComplete)
              /\ [][part = "TillRaces" =>
                  /\ Company!Till(c)!FiguresNeverGoBack
                  /\ Company!Till(c)!AnswerReachesStock]_vars
  BY <1>1, <1>2, <1>3, <1>5, <1>6, PTL DEF Spec, Company!Till!Spec
<1> QED BY <1>7 DEF c

\* A month that is closed for the scheduler has every figure the tills had when
\* it ended.
THEOREM TillStaysFaithful == Spec => []TillFaithful
BY TillCrashesPart, TillRacesPart, PTL DEF TillFaithful

LEMMA SlotsOfServerPart ==
    Spec => /\ (part = "ServerSlots" => Company!Orders(TwoSlots)!PromiseInit)
            /\ [][part = "ServerSlots" => Company!Orders(TwoSlots)!PromiseStep]_vars
<1> DEFINE c == TwoSlots
<1>1. Init /\ part = "ServerSlots" => Company!Orders(c)!Init
  BY DEF Init, ServerOrdersInit
<1>2. [Next]_vars => /\ part = "ServerSlots" => [Company!Orders(c)!Next]_(Company!Orders(c)!vars)
                     /\ (part = "ServerSlots")' <=> part = "ServerSlots"
  BY StepIsOfPart DEF ServerSlotsStep, serverOrderVars, Company!Orders!vars
<1>3. [Next]_vars => (part = "ServerSlots" /\ UNCHANGED Company!Orders(c)!vars => UNCHANGED vars)
  BY PartsRest DEF serverOrderVars, Company!Orders!vars
<1>4. Company!Orders(c)!MemoryOrderBounds
  BY CommandsAssumption
<1> HIDE DEF c
<1>5. Company!Orders(c)!Spec => Company!Orders(c)!PromiseInit /\ [][Company!Orders(c)!PromiseStep]_(Company!Orders(c)!vars)
  BY <1>4, Company!OrderingKeepsItsPromise, PTL
<1>6. Spec => /\ (part = "ServerSlots" => Company!Orders(c)!PromiseInit)
              /\ [][part = "ServerSlots" => Company!Orders(c)!PromiseStep]_vars
  BY <1>1, <1>2, <1>3, <1>5, PTL DEF Spec, Company!Orders!Spec
<1> QED BY <1>6 DEF c

LEMMA LoginsFollow ==
    Spec => [][part = "Logins" =>
                  /\ Company!Access(LoginTabs)!AdmittedIsCurrent
                  /\ Company!Access(LoginTabs)!DeadStaysDead]_vars
<1> DEFINE c == LoginTabs
<1>1. Init /\ part = "Logins" => Company!Access(c)!Init
  BY DEF Init, AccountsInit
<1>2. [Next]_vars => /\ part = "Logins" => [Company!Access(c)!Next]_(Company!Access(c)!vars)
                     /\ (part = "Logins")' <=> part = "Logins"
  BY StepIsOfPart DEF LoginsStep, accountVars, Company!Access!vars
<1>3. [Next]_vars => (part = "Logins" /\ UNCHANGED Company!Access(c)!vars => UNCHANGED vars)
  BY PartsRest DEF accountVars, Company!Access!vars
<1>4. Company!Access(c)!AccountSessionsAssumption
  BY CommandsAssumption
<1> HIDE DEF c
<1>5. Company!Access(c)!Spec => [][Company!Access(c)!AdmittedIsCurrent /\ Company!Access(c)!DeadStaysDead]_(Company!Access(c)!vars)
  BY <1>4, Company!AccessFollowsChanges, PTL
<1>6. Spec => [][part = "Logins" =>
                  /\ Company!Access(c)!AdmittedIsCurrent
                  /\ Company!Access(c)!DeadStaysDead]_vars
  BY <1>1, <1>2, <1>3, <1>5, PTL DEF Spec, Company!Access!Spec
<1> QED BY <1>6 DEF c

LEMMA EditsFollow ==
    Spec => [][part = "AccountEdits" => Company!Access(Editors)!EditsWhatWasSeen]_vars
<1> DEFINE c == Editors
<1>1. Init /\ part = "AccountEdits" => Company!Access(c)!Init
  BY DEF Init, AccountsInit
<1>2. [Next]_vars => /\ part = "AccountEdits" => [Company!Access(c)!Next]_(Company!Access(c)!vars)
                     /\ (part = "AccountEdits")' <=> part = "AccountEdits"
  BY StepIsOfPart DEF AccountEditsStep, accountVars, Company!Access!vars
<1>3. [Next]_vars => (part = "AccountEdits" /\ UNCHANGED Company!Access(c)!vars => UNCHANGED vars)
  BY PartsRest DEF accountVars, Company!Access!vars
<1>4. Company!Access(c)!AccountSessionsAssumption
  BY CommandsAssumption
<1> HIDE DEF c
<1>5. Company!Access(c)!Spec => [][Company!Access(c)!EditsWhatWasSeen]_(Company!Access(c)!vars)
  BY <1>4, Company!AccessFollowsChanges, PTL
<1>6. Spec => [][part = "AccountEdits" => Company!Access(c)!EditsWhatWasSeen]_vars
  BY <1>1, <1>2, <1>3, <1>5, PTL DEF Spec, Company!Access!Spec
<1> QED BY <1>6 DEF c

LEMMA LeastUsedPart ==
    Spec => [][part = "BusyTabs" => Company!Tabbed(BusyTabs)!LeastUsedRevoked]_vars
<1> DEFINE c == BusyTabs
<1>1. Init /\ part = "BusyTabs" => Company!Tabbed(c)!Init
  BY DEF Init, TabsInit
<1>2. [Next]_vars => /\ part = "BusyTabs" => [Company!Tabbed(c)!Next]_(Company!Tabbed(c)!vars)
                     /\ (part = "BusyTabs")' <=> part = "BusyTabs"
  BY StepIsOfPart DEF BusyTabsStep, tabVars, Company!Tabbed!vars
<1>3. [Next]_vars => (part = "BusyTabs" /\ UNCHANGED Company!Tabbed(c)!vars => UNCHANGED vars)
  BY PartsRest DEF tabVars, Company!Tabbed!vars
<1>4. Company!Tabbed(c)!TabSessionsAssumption
  BY CommandsAssumption
<1> HIDE DEF c
<1>5. Company!Tabbed(c)!Spec => [][Company!Tabbed(c)!LeastUsedRevoked]_(Company!Tabbed(c)!vars)
  BY <1>4, Company!LeastUsedGoesFirst, PTL
<1>6. Spec => [][part = "BusyTabs" => Company!Tabbed(c)!LeastUsedRevoked]_vars
  BY <1>1, <1>2, <1>3, <1>5, PTL DEF Spec, Company!Tabbed!Spec
<1> QED BY <1>6 DEF c

LEMMA ScopePart ==
    Spec => [][part = "ServerScope" => Company!Server(OneScope)!ScopeOfASessionIsFixed]_vars
<1> DEFINE c == OneScope
<1>1. Init /\ part = "ServerScope" => Company!Server(c)!Init
  BY DEF Init, ServerAccountsInit
<1>2. [Next]_vars => /\ part = "ServerScope" => [Company!Server(c)!Next]_(Company!Server(c)!vars)
                     /\ (part = "ServerScope")' <=> part = "ServerScope"
  BY StepIsOfPart DEF ServerScopeStep, serverAccountVars, Company!Server!vars
<1>3. [Next]_vars => (part = "ServerScope" /\ UNCHANGED Company!Server(c)!vars => UNCHANGED vars)
  BY PartsRest DEF serverAccountVars, Company!Server!vars
<1>4. Company!Server(c)!MemoryAccountBounds
  BY CommandsAssumption
<1> HIDE DEF c
<1>5. Company!Server(c)!Spec => [][Company!Server(c)!ScopeOfASessionIsFixed]_(Company!Server(c)!vars)
  BY <1>4, Company!SessionsKeepTheirScope, PTL
<1>6. Spec => [][part = "ServerScope" => Company!Server(c)!ScopeOfASessionIsFixed]_vars
  BY <1>1, <1>2, <1>3, <1>5, PTL DEF Spec, Company!Server!Spec
<1> QED BY <1>6 DEF c

\* Whatever is changed meanwhile, requests are admitted with current rights
\* only, sessions revoked for the limit of cookies were the least used as far as
\* the times stored can tell, edits are of what was seen, the stock follows the
\* tills and slots are released as promised.
THEOREM WhatIsSettledStands == Spec => SettledStands
BY SlotsOfServerPart, LoginsFollow, EditsFollow, LeastUsedPart, ScopePart,
   TillCrashesPart, TillRacesPart, PTL DEF SettledStands
=============================================================================
