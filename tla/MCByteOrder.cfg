\* Each call before and after the library is loaded, on each kind of host.
SPECIFICATION Spec
CONSTANTS
  Hosts <- MCHosts
  Numbers <- MCNumbers
INVARIANT TypeOK
INVARIANT WireOrder
PROPERTY ReadsBack
