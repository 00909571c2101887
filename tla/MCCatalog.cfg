SPECIFICATION Spec
CONSTANTS
  Org = {o1, o2}
  Key = {k1}
  Content = {c1, c2}
  Filename = {"csv"}
  Request = {q1, q2}
  MaxTemplates = 2
  MaxSchedules = 1
  MaxJobs = 1
  MaxUploads = 2
SYMMETRY Interchangeable
INVARIANTS
  PublishedVersionFixed
  TemplateStaysUntilAdmitted
  JobInputsExist
CHECK_DEADLOCK FALSE
