SPECIFICATION Spec
CONSTANTS
  None = None
  Providers <- MCProviders
  Ids <- MCIds
  Abouts = {"built-in", "one", "two"}
  Apis = {"anthropic", "openai"}
  Urls = {"", "built-in", "url", "url2"}
  ApiKeys = {"SET", "UNSET", "KEY_2", "secret", "stored"}
  Names = {"SET", "UNSET"}
  Configs <- MCConfigs
  BuiltIn <- MCBuiltIn
  Env <- MCEnv
  Storage <- MCStorage
  DefaultApi = "anthropic"
  EmptyUrl = ""
  MaxCalls = 3
INVARIANT LookupExplained KeyExplained
