SPECIFICATION FairSpec
CONSTANTS
    Tags <- MCTags
    Schema <- LastDiffers
    CrashLimit = 2
    MaxDamage = 1
INVARIANTS
    DataIsReadable
    KeptReleasesAreSound
    ProcessIsRecorded
PROPERTIES
    FallbackIsEarned
    UpdateIsDecided
    ComesBack
