SPECIFICATION FairSpec
CONSTANTS
  r1 = r1
  r2 = r2
  c1 = c1
  c2 = c2
  a1 = a1
  h1 = h1
  none = none
  Recipients <- MCRecipients
  Contents <- MCContents
  Admins <- MCAdmins
  Hooks <- MCHooks
  MaxAttempts = 2
  BatchSize = 2
  MaxDeaths = 1
  NoContent = none
  NoOne = none
INVARIANTS
  TypeOK
  RowsTellTheTruth
  AtMostOneLateMail
PROPERTIES
  Announces
  CampaignEnds
