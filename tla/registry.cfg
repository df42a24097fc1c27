SPECIFICATION Scenes
CONSTANTS
  None = None
  x1 = x1  x2 = x2  k1 = k1  k2 = k2  p1 = p1  p2 = p2  u1 = u1  g1 = g1  a1 = a1  a2 = a2
  mobile = mobile  shuku = shuku  v1 = v1
  Logins <- Two  Learners = {p1}  Staff = {p2}  BindCalls <- TwoCalls  Versions = 3
  Employees = {u1}  Grants = {g1}  Restricted = {g1}  Editors <- TwoCalls  Actors = {a1, a2}  Highest = {a1}
  Generations = 2
  Members <- Two  RenewalCalls <- TwoCalls  MonthsPerYear = 2  LastMonth = 2  FirstMonths = {0}  CycleIds = 2
  Proposed = "OPEN"  Choices = {"RENEWED"}  Records = {"INACTIVE", None}
  LinkIds <- Two  Applications <- Two  Phones = {mobile}  Targets = {shuku}  Reviews <- SomeForms  EnrollCalls <- TwoCalls
  Plans = {v1}  Duration = 3  Rounds = 2  Periods = 3  PlanCalls <- TwoCalls  Legacy = TRUE
  SigninCalls <- TwoCalls  Revisions = 2
  Meetings = {shuku}  Photos <- Two  Uploaders <- TwoCalls  Mishaps = {"CRASH", "ERROR"}
  People <- Two  Invitations = {1, 2}  CareCalls <- TwoCalls
  RhythmCalls <- TwoCalls  Days = {1, 2}  Touched = {"ATTENTION"}
SYMMETRY Symmetry
CHECK_DEADLOCK FALSE
INVARIANTS BindingsSafe StaffSafe EnrollmentSafe AttendanceSafe EvidenceSafe CareSafe MonthSafe
PROPERTIES RenewalsSafe LearningSafe
