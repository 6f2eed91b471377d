CONSTANTS
    Addresses <- MCAddresses
    Port <- MCPort
    UIDs <- MCUIDs
    Written <- MCWritten
SPECIFICATION Spec
INVARIANTS ParsedByForm OwnToken
PROPERTY AddressKept
