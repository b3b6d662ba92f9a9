SPECIFICATION Spec
CONSTANTS
    Messages <- AnyMessages
    MaxUnread = 2
    MaxAttempts = 2
PROPERTIES
    ExtraDataPreserved
