SPECIFICATION Spec
CONSTANTS
  Clients = {c1, c2}
  Mails = {ann, Ann}
  Lower <- LowerCase
  Types = {article, page}
  Asked <- SomeAsked
  Deployments <- SetUps
  Faults = TRUE
  MaxUsers = 3
  MaxCalls = 2
  MaxStarts = 2
  ann = ann
  Ann = Ann
  bob = bob
  article = article
  page = page
INVARIANTS AdministratorsAdminister OneSsoAccount MatrixAsAsked ChecksAgree
PROPERTIES ComesToServe
CHECK_DEADLOCK FALSE
