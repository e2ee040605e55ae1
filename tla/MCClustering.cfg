SPECIFICATION Spec
CONSTANTS MAX_NAME_LENGTH = 3
          MAX_LABEL_LENGTH = 2
          IpLiterals <- MCIpLiterals
          RawInputs <- MCRawInputs
          Uuids = {u1, u2}
          MaxWrites = 2
          NoCluster = NoCluster
          Unread = Unread
          Absent = Absent
          Torn = Torn
INVARIANTS StoredReadsBack AcceptsExactly
CHECK_DEADLOCK FALSE
