\* Three blobs, put again after uploads that ended anywhere.
CONSTANTS
    Blob = {b1, b2, b3}
    Size <- Bytes
    Quota = 2
SPECIFICATION StoreSpec
CHECK_DEADLOCK FALSE
INVARIANT RepeatedUploadsAreAnswered
