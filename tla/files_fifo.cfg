SPECIFICATION Spec
CONSTANTS
    Files = {f1}
    MaxBytes = 1
    MaxLength = 1
    MaxChanges = 1
    None = None
CHECK_DEADLOCK FALSE
PROPERTY InvalidConfigurationExits
