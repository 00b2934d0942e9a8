SPECIFICATION Spec
CONSTANTS
  basic = basic
  plus = plus
  sms = sms
  extra = extra
  t1 = t1
  t2 = t2
  n1 = n1
  n2 = n2
  s1 = s1
  k1 = k1
  k2 = k2
  Subscriptions = {s1}
  Plans = {basic, plus}
  Addons = {sms, extra}
  AddonsOf <- MCAddonsOf
  TrialPlans = {plus}
  MaxPeriod = 2
  MaxInvoices = 3
  MaxUsage = 1
  Registry <- MCRegistry
  Keys = {k1, k2}
  Countries = {"DE"}
  Currencies = {"EUR"}
  Methods = {"card"}
  MaxAmount = 2
  MaxCharges = 2
  Tenants = {t1, t2}
  Nonces = {n1, n2}
  Ttl = 2
  MaxTime = 3
  Endpoints <- MCEndpoints
  Envelopes <- MCEnvelopes
  AnyEvent = AnyEvent
  Ticks = {1, 2}
  MaxAttempts = 3
  BaseRetry = 1
  BackoffFactor = 2
  Skew = 1
  MaxClock = 3
  CalendarTenants = {t1, t2}
  Seed <- MCSeed
  Holds <- MCHolds
  Horizon = 4
  MaxEvents = 2
  Calendars <- MCCalendars
  Service = "visit"
  Anyone = "any"
  DayLength = 12
  Dates = {0, 1}
  Weekday <- MCWeekday
  Duration = 3
  Interval = 2
  LeadTime = 1
  HorizonLength = 24
  MaxBookings = 3
  Configurations <- MCConfigurations
  MaxSafe = 1000000
  Absent = Absent
  DefaultMax = 10000
  StepperMax = 99
  Batches = {1, 2}
  ChannelPolicy <- MCChannelPolicy
  ReminderRules <- MCReminderRules
  Templates <- MCTemplates
  Reachable = {"email"}
  BookingLocale = "es-MX"
  DefaultLocale = "en-US"
  Languages <- MCLanguages
  SlotStart = 5
  ReminderHorizon = 2
  MaxNoticeTime = 5
  MaxDeliveries = 3
  IntentKeys = {k1}
  IntentAmounts = {0, 1, 2}
  MaxIntents = 2
  MaxRefunds = 2
INVARIANTS CallbackOnce BusyIsMerged NeverOverCapacity PricesAgree NoticesHold StripeIsReadTrue
PROPERTIES WizardLeadsOn SubscriptionHolds ChargesHold Settles
CHECK_DEADLOCK FALSE
