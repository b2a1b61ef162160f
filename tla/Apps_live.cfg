SPECIFICATION Spec
CONSTANTS
  Releases <- Three
  AppOf <- AppOfThree
  TasksOf <- Tasks3
  Configured <- Three
  Installed <- NoneOrUpdated
  Copies = {0, 1, 2, 3}
  MaxFaults = 2
  MaxDeaths = 1
  MaxRequests = 2
  Windows = {}
    
PROPERTIES RecordIsTrue ChangeSettles
