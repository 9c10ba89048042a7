SPECIFICATION Spec
CONSTANTS
  ByteBits = 4
  Mems <- MCMems
  Views <- MCViews
  Indexes <- MCIndexes
  Texts <- MCTexts
  Numbers <- MCNumbers
  Objects <- MCObjects
  HeaderNames <- MCHeaderNames
  SetArgs <- MCSetArgs
  OutLists <- MCOutLists
  InLists <- MCInLists
  VarKinds <- MCVarKinds
  JsVars <- MCJsVars
  Captures <- MCCaptures
  MaxChanges = 2
  FetchNames <- MCFetchNames
  FetchValues <- MCFetchValues
  HeadersInits <- MCHeadersInits
  RequestInits <- MCRequestInits
  RequestUrls <- MCRequestUrls
  ResponseInits <- MCResponseInits
  BodyArgs <- MCBodyArgs
  MaxFetchCalls = 3
  QueryTexts <- MCQueryTexts
  QueryOptions <- MCQueryOptions
  QueryValues <- MCQueryValues
  MaxQueryCalls = 3
INVARIANTS BufferMeaning ObjectsMeaning QueryMeaning EnginesAlike
CHECK_DEADLOCK FALSE
