\* Names are model values; the file starts empty.
CONSTANTS
    a = a
    b = b
    Names <- MCNames
    InitialStore = {}
    Timeout = 2
    MaxTime = 3
SPECIFICATION Spec
INVARIANT CertificatesKept
