SPECIFICATION Spec
CONSTANTS
    a = a
    Consumers <- OneConsumer
    MaxEdits = 1
    MaxCatalogChanges = 0
    MaxOutages = 0
    MaxAdminRestarts = 0
    MaxRestarts = 0
PROPERTY Converges
CHECK_DEADLOCK FALSE
