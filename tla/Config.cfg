SPECIFICATION Spec
CONSTANTS
    a = a
    Consumers <- OneConsumer
    MaxEdits = 1
    MaxCatalogChanges = 1
    MaxOutages = 1
    MaxAdminRestarts = 1
    MaxRestarts = 1
INVARIANT VersionNamesContent
INVARIANT Informed
INVARIANT CatalogueSeen
PROPERTY NeverGoesBack
PROPERTY CatchesUp
CHECK_DEADLOCK FALSE
