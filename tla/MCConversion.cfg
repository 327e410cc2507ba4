SPECIFICATION Spec
CONSTANTS
    OwnId = "own"
    Base <- MCBase
    Options <- MCOptions
    Key <- MCKey
    SecretValue <- MCSecretValue
    MaxEdits = 1
INVARIANTS
    TypeOK
    SecretsGoWhereTheyBelong
    SentAsAsked
    OneRequestSettles
    NothingMissed
PROPERTIES
    UnaskedUntouched
