SPECIFICATION Spec
CONSTANTS
    Calls = {k1, k2}
    max_concurrent_uploads = 1
    max_concurrent_downloads = 1
    max_retries = 2
    MAX_CODE_ATTEMPTS = 2
    MAX_PASSWORD_ATTEMPTS = 1
    MaxMessages = 3
INVARIANTS AckedStored NotFoundIsTrue StraysBounded LoginLasts
PROPERTY CallsEnd
